---- MODULE Spec2Model ----
(***************************************************************************)
(* State-machine model of the task workflows of vikunja-mcp: the create,   *)
(* update, delete and list operations of the tasks tool and the pure       *)
(* validation helpers they use.  One request is processed at a time; every *)
(* await on a remote call is one step, whose outcome (success or a kind of *)
(* failure) is chosen by the environment.                                  *)
(***************************************************************************)
EXTENDS Integers, Sequences, FiniteSets, TLC

VARIABLES
    op,      \* the workflow being run ("none" before a request arrives)
    pc,      \* the await point the workflow is suspended at
    args,    \* the request's argument record
    remote,  \* the remote service's state (the system of record)
    calls,   \* history: the remote calls issued so far, in order
    local,   \* the workflow's local variables
    result   \* what the caller receives

vars == <<op, pc, args, remote, calls, local, result>>

----------------------------------------------------------------------------
(* Bounds of the model *)

MaxUser == 2          \* user identifiers are 1..MaxUser
MaxListLen == 2       \* longest requested assignee list
MaxInterval == 20     \* largest repeat interval tried
MaxTaskId == 3        \* task identifiers addressed by delete requests are 1..MaxTaskId
MaxTasks == 2         \* most tasks a list call returns
maxRetries == 2       \* the retry budget RETRY_CONFIG.AUTH_ERRORS.maxRetries

----------------------------------------------------------------------------
(* Optional values: an absent (undefined) field is <<>>, a present one <<v>> *)

None == <<>>
Some(v) == <<v>>
IsDef(o) == o # None
Val(o) == o[1]

\* JavaScript truthiness of an optional number / string / date string
TruthyNum(o) == IsDef(o) /\ Val(o) # 0
TruthyStr(o) == IsDef(o) /\ Val(o) # ""
TruthyChars(o) == IsDef(o) /\ Val(o) # <<>>

Range(s) == {s[i] : i \in 1..Len(s)}
Includes(s, x) == \E i \in 1..Len(s) : s[i] = x

RECURSIVE FilterOut(_, _)
\* s.filter(x => !t.includes(x)), order and repetitions of s kept
FilterOut(s, t) ==
    IF s = <<>> THEN <<>>
    ELSE IF Includes(t, Head(s)) THEN FilterOut(Tail(s), t)
         ELSE <<Head(s)>> \o FilterOut(Tail(s), t)

RECURSIVE SeqsUpTo(_, _)
SeqsUpTo(S, n) ==
    IF n = 0 THEN {<<>>}
    ELSE LET shorter == SeqsUpTo(S, n - 1)
         IN  shorter \cup {Append(s, x) : s \in shorter, x \in S}

NoRepeat(s) == \A i, j \in 1..Len(s) : i # j => s[i] # s[j]

Users == 1..MaxUser

----------------------------------------------------------------------------
(* Errors.  cls is the JavaScript class, code the MCP error code, msg a tag *)
(* for the message text, kind the failure kind of a raw remote error,       *)
(* origin the remote call that failed ("local" for a locally raised one).   *)

FailKinds == {"auth", "network", "other"}
Outcomes == {"ok"} \cup FailKinds

Err(cls, code, msg, kind, origin, details) ==
    [cls |-> cls, code |-> code, msg |-> msg, kind |-> kind,
     origin |-> origin, details |-> details]

MCPError(code, msg) == Err("MCPError", code, msg, "none", "local", None)

RemoteError(kind, call) == Err("Error", "NONE", "remote failure", kind, call, None)

isAuthenticationError(e) == e.cls = "Error" /\ e.kind = "auth"

\* error.message.includes('fetch failed' | 'ECONNREFUSED' | 'ENOTFOUND')
IsFetchFailure(e) == e.cls = "Error" /\ e.kind = "network"

handleFetchError(e, operation) ==
    Err("MCPError", "API_ERROR", "handleFetchError", e.kind, e.origin, None)

handleStatusCodeError(e, operation) ==
    Err("MCPError", IF e.kind = "other" THEN "NOT_FOUND" ELSE "API_ERROR",
        "handleStatusCodeError", e.kind, e.origin, None)

transformApiError(e, operation) ==
    Err("MCPError", "API_ERROR", "transformApiError", e.kind, e.origin, None)

NoResult == [status |-> "none"]
Failure(e) == [status |-> "error", error |-> e]
Success(operation, message, data, metadata) ==
    [status |-> "ok", operation |-> operation, message |-> message,
     data |-> data, metadata |-> metadata]

Call(name, id, payload, outcome) ==
    [name |-> name, id |-> id, payload |-> payload, outcome |-> outcome]

CallsNamed(name) == {i \in 1..Len(calls) : calls[i].name = name}

----------------------------------------------------------------------------
(* Validation helpers *)

ErrorCode == [VALIDATION_ERROR |-> "VALIDATION_ERROR", API_ERROR |-> "API_ERROR",
              NOT_FOUND |-> "NOT_FOUND", INTERNAL_ERROR |-> "INTERNAL_ERROR"]

\* validateId: passes only for an integer >= 1 (every number of the model is
\* an integer)
validateId(n) == n >= 1

DigitChars == <<"0", "1", "2", "3", "4", "5", "6", "7", "8", "9">>
IsDigit(c) == \E i \in 1..10 : DigitChars[i] = c
DigitVal(c) == (CHOOSE i \in 1..10 : DigitChars[i] = c) - 1
Num2(s, i) == 10 * DigitVal(s[i]) + DigitVal(s[i + 1])
Num3(s, i) == 100 * DigitVal(s[i]) + 10 * DigitVal(s[i + 1]) + DigitVal(s[i + 2])

\* /^\d{4}-\d{2}-\d{2}T\d{2}:\d{2}:\d{2}\.\d{3}Z$/ on a string given as its
\* sequence of characters
isoWithMillisecondsRegex(s) ==
    /\ Len(s) = 24
    /\ \A i \in {1, 2, 3, 4, 6, 7, 9, 10, 12, 13, 15, 16, 18, 19, 21, 22, 23} :
          IsDigit(s[i])
    /\ s[5] = "-" /\ s[8] = "-" /\ s[11] = "T"
    /\ s[14] = ":" /\ s[17] = ":" /\ s[20] = "." /\ s[24] = "Z"

\* !isNaN(new Date(s).getTime()) for a string that matches the pattern: the
\* runtime's ISO parser takes month 01..12, day 01..31 whatever the month
\* (a day past the month's end rolls over), 00..23:00..59:00..59 and
\* 24:00:00.000
ParsesToDate(s) ==
    /\ Num2(s, 6) \in 1..12
    /\ Num2(s, 9) \in 1..31
    /\ Num2(s, 15) \in 0..59
    /\ Num2(s, 18) \in 0..59
    /\ \/ Num2(s, 12) \in 0..23
       \/ Num2(s, 12) = 24 /\ Num2(s, 15) = 0 /\ Num2(s, 18) = 0 /\ Num3(s, 21) = 0

\* validateDateString: None when it returns normally, else the error thrown
validateDateString(date, fieldName) ==
    IF ~isoWithMillisecondsRegex(date)
    THEN Some(MCPError(ErrorCode.VALIDATION_ERROR, "date: must be in ISO 8601 format with milliseconds"))
    ELSE IF ~ParsesToDate(date)
    THEN Some(MCPError(ErrorCode.VALIDATION_ERROR, "date: must be a valid date"))
    ELSE None

\* "2025-10-30T04:05:22.422Z"
DateA == <<"2", "0", "2", "5", "-", "1", "0", "-", "3", "0", "T", "0", "4", ":",
           "0", "5", ":", "2", "2", ".", "4", "2", "2", "Z">>
\* "2026-01-02T00:00:00.000Z"
DateB == <<"2", "0", "2", "6", "-", "0", "1", "-", "0", "2", "T", "0", "0", ":",
           "0", "0", ":", "0", "0", ".", "0", "0", "0", "Z">>
\* "2025-10-30T04:05:22Z"
DateNoMillis == <<"2", "0", "2", "5", "-", "1", "0", "-", "3", "0", "T", "0", "4", ":",
                  "0", "5", ":", "2", "2", "Z">>
\* "2025-13-30T04:05:22.422Z"
DateMonth13 == <<"2", "0", "2", "5", "-", "1", "3", "-", "3", "0", "T", "0", "4", ":",
                 "0", "5", ":", "2", "2", ".", "4", "2", "2", "Z">>
EmptyChars == <<>>

----------------------------------------------------------------------------
(* Repeat-policy conversion *)

RepeatModes == {"day", "week", "month", "year"}

\* A conversion without the month branch: every unit goes through the
\* interval table, and a unit the table lacks leaves the number as it is
convertRepeatConfiguration_NoMonthBranch(repeatAfter, repeatMode) ==
    IF IsDef(repeatAfter)
    THEN [repeat_mode |-> Some(0),
          repeat_after |->
              CASE repeatMode = Some("day")  -> Some(Val(repeatAfter) * 24 * 60 * 60)
                [] repeatMode = Some("week") -> Some(Val(repeatAfter) * 7 * 24 * 60 * 60)
                [] repeatMode = Some("year") -> Some(Val(repeatAfter) * 365 * 24 * 60 * 60)
                [] OTHER -> Some(Val(repeatAfter))]
    ELSE [repeat_mode |-> None, repeat_after |-> None]

\* convertRepeatConfiguration(repeatAfter?, repeatMode?): both arguments and
\* both result fields are optional values
convertRepeatConfiguration(repeatAfter, repeatMode) ==
    IF repeatMode = Some("month")
    THEN [repeat_mode |-> Some(1),
          repeat_after |-> IF IsDef(repeatAfter)
                           THEN Some(Val(repeatAfter) * 30 * 24 * 60 * 60)
                           ELSE None]
    ELSE IF IsDef(repeatAfter)
    THEN [repeat_mode |-> Some(0),
          repeat_after |->
              CASE repeatMode = Some("day")  -> Some(Val(repeatAfter) * 24 * 60 * 60)
                [] repeatMode = Some("week") -> Some(Val(repeatAfter) * 7 * 24 * 60 * 60)
                [] repeatMode = Some("year") -> Some(Val(repeatAfter) * 365 * 24 * 60 * 60)
                [] OTHER -> Some(Val(repeatAfter))]
    ELSE [repeat_mode |-> None, repeat_after |-> None]

----------------------------------------------------------------------------
(* The remote service *)

\* The task every update and delete request of the model addresses
TaskId == 1

InitialTask(assignees) ==
    [id |-> TaskId, title |-> "A", description |-> "d", due_date |-> DateA,
     priority |-> 3, done |-> FALSE, repeat_after |-> 3, repeat_mode |-> 0,
     assignees |-> assignees]

\* The remote assignee list after a successful bulk assign of ids
RECURSIVE AssignUsers(_, _)
AssignUsers(current, ids) ==
    IF ids = <<>> THEN current
    ELSE AssignUsers(IF Includes(current, Head(ids)) THEN current
                     ELSE Append(current, Head(ids)), Tail(ids))

\* The remote assignee list after a successful removal of userId
UnassignUser(current, userId) == FilterOut(current, <<userId>>)

\* The remote task after a successful full-object update with payload: the
\* scalar fields are replaced, the assignee relation is kept
ApplyUpdate(task, payload) == [payload EXCEPT !.assignees = task.assignees]

----------------------------------------------------------------------------
(* Update workflow: TaskUpdateService *)

AppendIf(s, cond, x) == IF cond THEN Append(s, x) ELSE s

\* updateTaskValidate without the check of the labels field
updateTaskValidate_NoLabelsCheck(a) ==
    IF ~TruthyNum(a.id)
    THEN Some(MCPError(ErrorCode.VALIDATION_ERROR, "update: task id is required"))
    ELSE IF ~validateId(Val(a.id))
    THEN Some(MCPError(ErrorCode.VALIDATION_ERROR, "id must be a positive integer"))
    ELSE IF TruthyChars(a.dueDate) /\ IsDef(validateDateString(Val(a.dueDate), "dueDate"))
    THEN validateDateString(Val(a.dueDate), "dueDate")
    ELSE None

\* updateTaskValidate turning away only an empty labels list
updateTaskValidate_EmptyLabelsOnly(a) ==
    IF ~TruthyNum(a.id)
    THEN Some(MCPError(ErrorCode.VALIDATION_ERROR, "update: task id is required"))
    ELSE IF ~validateId(Val(a.id))
    THEN Some(MCPError(ErrorCode.VALIDATION_ERROR, "id must be a positive integer"))
    ELSE IF TruthyChars(a.dueDate) /\ IsDef(validateDateString(Val(a.dueDate), "dueDate"))
    THEN validateDateString(Val(a.dueDate), "dueDate")
    ELSE IF IsDef(a.labels) /\ Val(a.labels) = <<>>
    THEN Some(MCPError(ErrorCode.VALIDATION_ERROR, "update: use the apply-label subcommand"))
    ELSE None

\* Lines 49-68 of updateTask: None when validation passes, else the error
updateTaskValidate(a) ==
    IF ~TruthyNum(a.id)
    THEN Some(MCPError(ErrorCode.VALIDATION_ERROR, "update: task id is required"))
    ELSE IF ~validateId(Val(a.id))
    THEN Some(MCPError(ErrorCode.VALIDATION_ERROR, "id must be a positive integer"))
    ELSE IF TruthyChars(a.dueDate) /\ IsDef(validateDateString(Val(a.dueDate), "dueDate"))
    THEN validateDateString(Val(a.dueDate), "dueDate")
    ELSE IF IsDef(a.labels)
    THEN Some(MCPError(ErrorCode.VALIDATION_ERROR, "update: use the apply-label subcommand"))
    ELSE None

\* affectedFieldsOf listing every scalar field the request carries, changed or not
affectedFieldsOf_NoCompare(currentTask, a) ==
    LET f1 == AppendIf(<<>>, IsDef(a.title), "title")
        f2 == AppendIf(f1, IsDef(a.description), "description")
        f3 == AppendIf(f2, IsDef(a.dueDate), "dueDate")
        f4 == AppendIf(f3, IsDef(a.priority), "priority")
        f5 == AppendIf(f4, IsDef(a.done), "done")
        f6 == AppendIf(f5, IsDef(a.repeatAfter), "repeatAfter")
        f7 == AppendIf(f6, IsDef(a.repeatMode), "repeatMode")
        f8 == AppendIf(f7, IsDef(a.labels), "labels")
    IN  AppendIf(f8, IsDef(a.assignees), "assignees")

\* The affectedFields list of analyzeUpdateState.  args.repeatMode is a unit
\* name and currentTask.repeat_mode a number, so !== between them is true
affectedFieldsOf(currentTask, a) ==
    LET f1 == AppendIf(<<>>, IsDef(a.title) /\ Val(a.title) # currentTask.title, "title")
        f2 == AppendIf(f1, IsDef(a.description) /\ Val(a.description) # currentTask.description,
                       "description")
        f3 == AppendIf(f2, IsDef(a.dueDate) /\ Val(a.dueDate) # currentTask.due_date, "dueDate")
        f4 == AppendIf(f3, IsDef(a.priority) /\ Val(a.priority) # currentTask.priority, "priority")
        f5 == AppendIf(f4, IsDef(a.done) /\ Val(a.done) # currentTask.done, "done")
        f6 == AppendIf(f5, IsDef(a.repeatAfter) /\ Val(a.repeatAfter) # currentTask.repeat_after,
                       "repeatAfter")
        f7 == AppendIf(f6, IsDef(a.repeatMode), "repeatMode")
        f8 == AppendIf(f7, IsDef(a.labels), "labels")
    IN  AppendIf(f8, IsDef(a.assignees), "assignees")

analyzeUpdateState(currentTask, a) ==
    [currentTask |-> currentTask,
     previousState |-> [title |-> currentTask.title,
                        description |-> currentTask.description,
                        due_date |-> currentTask.due_date,
                        priority |-> currentTask.priority,
                        done |-> currentTask.done,
                        repeat_after |-> currentTask.repeat_after,
                        repeat_mode |-> currentTask.repeat_mode],
     affectedFields |-> affectedFieldsOf(currentTask, a)]

buildUpdateData(currentTask, a) ==
    LET repeatConfig ==
            IF IsDef(a.repeatAfter) \/ IsDef(a.repeatMode)
            THEN convertRepeatConfiguration(
                     IF IsDef(a.repeatAfter) THEN a.repeatAfter
                     ELSE Some(currentTask.repeat_after),
                     a.repeatMode)
            ELSE [repeat_mode |-> None, repeat_after |-> None]
    IN  [currentTask EXCEPT
            !.title = IF IsDef(a.title) THEN Val(a.title) ELSE @,
            !.description = IF IsDef(a.description) THEN Val(a.description) ELSE @,
            !.due_date = IF IsDef(a.dueDate) THEN Val(a.dueDate) ELSE @,
            !.priority = IF IsDef(a.priority) THEN Val(a.priority) ELSE @,
            !.done = IF IsDef(a.done) THEN Val(a.done) ELSE @,
            !.repeat_after = IF IsDef(repeatConfig.repeat_after)
                             THEN Val(repeatConfig.repeat_after) ELSE @,
            !.repeat_mode = IF IsDef(repeatConfig.repeat_mode)
                            THEN Val(repeatConfig.repeat_mode) ELSE @]

\* The catch clause of updateTask (lines 117-137)
updateTaskCatch(e, a) ==
    IF e.cls = "MCPError" THEN e
    ELSE IF IsFetchFailure(e) THEN handleFetchError(e, "update task")
    ELSE IF TruthyNum(a.id) THEN handleStatusCodeError(e, "update task")
    ELSE transformApiError(e, "Failed to update task")

\* toAddOf without the filter against the current assignees
toAddOf_Unfiltered(newAssigneeIds, currentAssigneeIds) == newAssigneeIds

\* The diff of updateTaskAssignees (lines 231-235)
toAddOf(newAssigneeIds, currentAssigneeIds) == FilterOut(newAssigneeIds, currentAssigneeIds)
toRemoveOf(newAssigneeIds, currentAssigneeIds) == FilterOut(currentAssigneeIds, newAssigneeIds)

\* assigneeCallPlan with the removals issued before the bulk assign
assigneeCallPlan_RemoveFirst(toAdd, toRemove) ==
    [i \in 1..Len(toRemove) |-> [kind |-> "remove", ids |-> <<toRemove[i]>>]]
    \o (IF Len(toAdd) > 0 THEN <<[kind |-> "add", ids |-> toAdd]>> ELSE <<>>)

\* The remote calls of updateTaskAssignees in the order it issues them
\* (lines 237-255): one bulk assign when toAdd is not empty, then one removal
\* per member of toRemove
assigneeCallPlan(toAdd, toRemove) ==
    (IF Len(toAdd) > 0 THEN <<[kind |-> "add", ids |-> toAdd]>> ELSE <<>>)
    \o [i \in 1..Len(toRemove) |-> [kind |-> "remove", ids |-> <<toRemove[i]>>]]

\* The catch clause of updateTaskAssignees (lines 256-265); looksAuth is what
\* isAuthenticationError answers for an already classified error
updateTaskAssigneesCatch(e, looksAuth) ==
    IF (IF e.cls = "Error" THEN isAuthenticationError(e) ELSE looksAuth)
    THEN Err("MCPError", ErrorCode.API_ERROR, "ASSIGNEE_UPDATE (Retried maxRetries times)",
             e.kind, e.origin, None)
    ELSE e

\* The catch clause around removeUserFromTask (lines 248-254)
removeUserCatch(e) ==
    IF isAuthenticationError(e)
    THEN Err("MCPError", ErrorCode.API_ERROR, "ASSIGNEE_REMOVE_PARTIAL", e.kind, e.origin, None)
    ELSE e

UpdateLocal0 ==
    [updateState |-> None, updateData |-> None, currentAssigneeIds |-> None,
     toAdd |-> <<>>, toRemove |-> <<>>, plan |-> <<>>, step |-> 0]

\* updateTask(a) from its entry to its first await (lines 47-70)
UpdateEnter(a) ==
    /\ args' = a
    /\ op' = "update"
    /\ local' = UpdateLocal0
    /\ IF IsDef(updateTaskValidate(a))
       THEN /\ result' = Failure(updateTaskCatch(Val(updateTaskValidate(a)), a))
            /\ pc' = "done"
       ELSE /\ result' = result
            /\ pc' = "analyze"

\* An update request arrives
UpdateInvoke(Requests) ==
    /\ pc = "idle"
    /\ \E a \in Requests : UpdateEnter(a)
    /\ UNCHANGED <<remote, calls>>

\* analyzeUpdateState's getTask, then buildUpdateData (lines 73-76, 145)
UpdateAnalyze ==
    /\ op = "update" /\ pc = "analyze"
    /\ \E o \in Outcomes :
          /\ calls' = Append(calls, Call("getTask", Val(args.id), None, o))
          /\ IF o = "ok"
             THEN /\ local' = [local EXCEPT
                        !.updateState = Some(analyzeUpdateState(remote.task, args)),
                        !.updateData = Some(buildUpdateData(remote.task, args))]
                  /\ pc' = "update"
                  /\ result' = result
             ELSE /\ result' = Failure(updateTaskCatch(RemoteError(o, "getTask"), args))
                  /\ pc' = "done"
                  /\ local' = local
    /\ UNCHANGED <<op, args, remote>>

\* Where updateTask goes after the update call succeeded (lines 79-90)
afterUpdateCall(a) ==
    IF IsDef(a.labels) THEN "labels"
    ELSE IF IsDef(a.assignees) THEN "assignees"
    ELSE "refetch"

\* client.tasks.updateTask (line 77)
UpdateApply ==
    /\ op = "update" /\ pc = "update"
    /\ \E o \in Outcomes :
          /\ calls' = Append(calls, Call("updateTask", Val(args.id), local.updateData, o))
          /\ IF o = "ok"
             THEN /\ remote' = [remote EXCEPT !.task = ApplyUpdate(@, Val(local.updateData))]
                  /\ pc' = afterUpdateCall(args)
                  /\ result' = result
             ELSE /\ result' = Failure(updateTaskCatch(RemoteError(o, "updateTask"), args))
                  /\ pc' = "done"
                  /\ remote' = remote
    /\ UNCHANGED <<op, args, local>>

\* Where updateTaskAssignees goes after step n of its plan
afterPlanStep(plan, n) == IF n < Len(plan) THEN "assign" ELSE "refetch"

\* The relation stage's first call: updateTaskLabels (lines 80-82, 210-222) when
\* the request carries labels, else updateTaskAssignees' getTask and its diff
\* (lines 230-235)
UpdateRelationsStart ==
    /\ op = "update" /\ pc \in {"labels", "assignees"}
    /\ \E o \in Outcomes :
          IF pc = "labels"
          THEN /\ calls' = Append(calls, Call("updateTaskLabels", Val(args.id), args.labels, o))
               /\ IF o = "ok"
                  THEN /\ remote' = [remote EXCEPT !.labels = Val(args.labels)]
                       /\ pc' = IF IsDef(args.assignees) THEN "assignees" ELSE "refetch"
                       /\ result' = result
                  ELSE /\ result' = Failure(updateTaskCatch(
                              IF o = "auth"
                              THEN MCPError(ErrorCode.API_ERROR, "LABEL_UPDATE")
                              ELSE RemoteError(o, "updateTaskLabels"), args))
                       /\ pc' = "done"
                       /\ remote' = remote
               /\ local' = local
          ELSE /\ calls' = Append(calls, Call("getTask", Val(args.id), None, o))
               /\ remote' = remote
               /\ IF o = "ok"
                  THEN LET cur == remote.task.assignees
                           add == toAddOf(Val(args.assignees), cur)
                           rem == toRemoveOf(Val(args.assignees), cur)
                       IN  /\ local' = [local EXCEPT
                                  !.currentAssigneeIds = Some(cur),
                                  !.toAdd = add, !.toRemove = rem,
                                  !.plan = assigneeCallPlan(add, rem), !.step = 0]
                           /\ pc' = afterPlanStep(assigneeCallPlan(add, rem), 0)
                           /\ result' = result
                  ELSE /\ result' = Failure(updateTaskCatch(
                              updateTaskAssigneesCatch(RemoteError(o, "getTask"), FALSE), args))
                       /\ pc' = "done"
                       /\ local' = local
    /\ UNCHANGED <<op, args>>

\* UpdateAssign going on to the next step of the plan when the call failed
UpdateAssign_FailureIgnored ==
    /\ op = "update" /\ pc = "assign"
    /\ local.plan[local.step + 1].kind = "add"
    /\ \E o \in Outcomes :
          /\ calls' = Append(calls, Call("bulkAssignUsersToTask", Val(args.id),
                                         local.plan[local.step + 1].ids, o))
          /\ remote' = IF o = "ok"
                       THEN [remote EXCEPT !.task.assignees =
                                AssignUsers(@, local.plan[local.step + 1].ids)]
                       ELSE remote
          /\ local' = [local EXCEPT !.step = @ + 1]
          /\ pc' = afterPlanStep(local.plan, local.step + 1)
          /\ result' = result
    /\ UNCHANGED <<op, args>>

\* client.tasks.bulkAssignUsersToTask (lines 238-242)
UpdateAssign ==
    /\ op = "update" /\ pc = "assign"
    /\ local.plan[local.step + 1].kind = "add"
    /\ \E o \in Outcomes :
          /\ calls' = Append(calls, Call("bulkAssignUsersToTask", Val(args.id),
                                         local.plan[local.step + 1].ids, o))
          /\ IF o = "ok"
             THEN /\ remote' = [remote EXCEPT !.task.assignees =
                                    AssignUsers(@, local.plan[local.step + 1].ids)]
                  /\ local' = [local EXCEPT !.step = @ + 1]
                  /\ pc' = afterPlanStep(local.plan, local.step + 1)
                  /\ result' = result
             ELSE /\ result' = Failure(updateTaskCatch(
                         updateTaskAssigneesCatch(RemoteError(o, "bulkAssignUsersToTask"), FALSE),
                         args))
                  /\ pc' = "done"
                  /\ UNCHANGED <<remote, local>>
    /\ UNCHANGED <<op, args>>

\* One iteration of the removal loop: client.tasks.removeUserFromTask
\* (lines 245-255)
UpdateUnassign ==
    /\ op = "update" /\ pc = "assign"
    /\ local.plan[local.step + 1].kind = "remove"
    /\ \E o \in Outcomes, looksAuth \in BOOLEAN :
          /\ calls' = Append(calls, Call("removeUserFromTask", Val(args.id),
                                         local.plan[local.step + 1].ids, o))
          /\ IF o = "ok"
             THEN /\ remote' = [remote EXCEPT !.task.assignees =
                                    UnassignUser(@, local.plan[local.step + 1].ids[1])]
                  /\ local' = [local EXCEPT !.step = @ + 1]
                  /\ pc' = afterPlanStep(local.plan, local.step + 1)
                  /\ result' = result
             ELSE /\ result' = Failure(updateTaskCatch(
                         updateTaskAssigneesCatch(
                             removeUserCatch(RemoteError(o, "removeUserFromTask")), looksAuth),
                         args))
                  /\ pc' = "done"
                  /\ UNCHANGED <<remote, local>>
    /\ UNCHANGED <<op, args>>

\* The final getTask and the response (lines 89-116)
UpdateRefetch ==
    /\ op = "update" /\ pc = "refetch"
    /\ \E o \in Outcomes :
          /\ calls' = Append(calls, Call("getTask", Val(args.id), None, o))
          /\ result' =
                IF o = "ok"
                THEN Success("update-task", "Task updated successfully",
                             [task |-> remote.task],
                             [affectedFields |-> Val(local.updateState).affectedFields,
                              previousState |-> Val(local.updateState).previousState,
                              taskId |-> Val(args.id)])
                ELSE Failure(updateTaskCatch(RemoteError(o, "getTask"), args))
          /\ pc' = "done"
    /\ UNCHANGED <<op, args, remote, local>>

----------------------------------------------------------------------------
(* Requests and specifications of the update workflow *)

RemoteState(assignees) == [task |-> InitialTask(assignees), labels |-> <<7>>]

InitWith(assigneeLists) ==
    /\ op = "none"
    /\ pc = "idle"
    /\ args = None
    /\ remote \in {RemoteState(a) : a \in assigneeLists}
    /\ calls = <<>>
    /\ local = None
    /\ result = NoResult

\* Update requests that vary every scalar field against the stored task
UpdateRequests ==
    [id : {None, Some(0), Some(-1), Some(TaskId)},
     title : {None, Some("A"), Some("B"), Some("")},
     description : {None, Some("d"), Some("e")},
     dueDate : {None, Some(EmptyChars), Some(DateA), Some(DateB),
                Some(DateNoMillis), Some(DateMonth13)},
     priority : {None, Some(3), Some(4)},
     done : {None, Some(FALSE), Some(TRUE)},
     labels : {None, Some(<<>>), Some(<<1, 2, 3>>)},
     assignees : {None, Some(<<1>>)},
     repeatAfter : {None},
     repeatMode : {None, Some("week")}]

\* Update requests that vary the desired assignee list; 0 is not the
\* identifier of a user
AssignRequests ==
    [id : {Some(TaskId)},
     title : {None},
     description : {None},
     dueDate : {None},
     priority : {None, Some(4)},
     done : {None},
     labels : {None},
     assignees : {None, Some(<<0>>)} \cup {Some(s) : s \in SeqsUpTo(Users, MaxListLen)},
     repeatAfter : {None},
     repeatMode : {None}]

UpdateSteps ==
    \/ UpdateAnalyze
    \/ UpdateApply
    \/ UpdateRelationsStart
    \/ UpdateAssign
    \/ UpdateUnassign
    \/ UpdateRefetch

NextUpdate == UpdateInvoke(UpdateRequests) \/ UpdateSteps
SpecUpdate == InitWith({<<2>>}) /\ [][NextUpdate]_vars

NextAssign == UpdateInvoke(AssignRequests) \/ UpdateSteps
SpecAssign ==
    InitWith({s \in SeqsUpTo(Users, MaxUser) : NoRepeat(s)}) /\ [][NextAssign]_vars

----------------------------------------------------------------------------
(* Properties of the update workflow *)

ApplyLabelMessage == "update: use the apply-label subcommand"

\* C2 as stated: every update request that carries a labels field, whatever
\* its id, fails with the ValidationError that directs the caller to the
\* apply-label operation, and no remote call is issued for it.
C2_AnyIdDirectsToApplyLabel ==
    (op = "update" /\ IsDef(args.labels)) =>
        /\ result.status = "error"
        /\ result.error.code = ErrorCode.VALIDATION_ERROR
        /\ result.error.msg = ApplyLabelMessage
        /\ calls = <<>>

\* C2 amended: every update request that carries a labels field (the empty
\* list included) fails with a ValidationError and issues no remote call; the
\* error is the one directing the caller to apply-label whenever the id is an
\* integer >= 1 and the dueDate is absent, empty or a valid date string, and
\* is the id or dueDate validation error otherwise.
C2_LabelsRejected ==
    (op = "update" /\ IsDef(args.labels)) =>
        /\ pc = "done"
        /\ result.status = "error"
        /\ result.error.cls = "MCPError"
        /\ result.error.code = ErrorCode.VALIDATION_ERROR
        /\ calls = <<>>
        /\ remote.labels = <<7>>
        /\ result.error.msg = ApplyLabelMessage <=>
              /\ IsDef(args.id) /\ Val(args.id) >= 1
              /\ args.dueDate \in {None, Some(EmptyChars), Some(DateA), Some(DateB)}

C2_Witness ==
    /\ op = "update" /\ pc = "done"
    /\ args.id = Some(TaskId)
    /\ args.labels = Some(<<>>)
    /\ result.status = "error"
    /\ result.error.msg = ApplyLabelMessage

\* C3: the diff of the update workflow: toAdd = desired - current, toRemove =
\* current - desired, the two are disjoint, (current + toAdd) - toRemove =
\* desired, and every reordering of the two input lists gives the same sets.
C3_AssigneeDiff ==
    (op = "update" /\ IsDef(local.currentAssigneeIds)) =>
        LET current == Range(Val(local.currentAssigneeIds))
            desired == Range(Val(args.assignees))
            toAdd == Range(local.toAdd)
            toRemove == Range(local.toRemove)
        IN  /\ toAdd = desired \ current
            /\ toRemove = current \ desired
            /\ toAdd \cap toRemove = {}
            /\ (current \cup toAdd) \ toRemove = desired
            /\ \A d \in SeqsUpTo(Users, MaxListLen), c \in SeqsUpTo(Users, MaxUser) :
                  (Range(d) = desired /\ Range(c) = current) =>
                      /\ Range(toAddOf(d, c)) = toAdd
                      /\ Range(toRemoveOf(d, c)) = toRemove

C3_Witness ==
    /\ op = "update" /\ IsDef(local.currentAssigneeIds)
    /\ Val(args.assignees) = <<2, 1>>
    /\ Val(local.currentAssigneeIds) = <<1>>
    /\ local.toAdd = <<2>>

\* C4: in the update workflow every bulk-assign call precedes every removal
\* call, a removal is only issued once the needed bulk assign has succeeded,
\* and when the current and the desired assignee lists are both non-empty the
\* task's remote assignee list is non-empty in every state of the workflow,
\* whichever call fails.
C4_AddBeforeRemove ==
    op = "update" =>
        /\ \A i, j \in 1..Len(calls) :
              (calls[i].name = "removeUserFromTask" /\ calls[j].name = "bulkAssignUsersToTask")
                  => (j < i /\ calls[j].outcome = "ok")
        /\ \A i \in 1..Len(calls) :
              (calls[i].name = "removeUserFromTask" /\ local.toAdd # <<>>) =>
                  \E j \in 1..(i - 1) : calls[j].name = "bulkAssignUsersToTask"
        /\ (IsDef(local.currentAssigneeIds) /\ Val(local.currentAssigneeIds) # <<>>
              /\ Val(args.assignees) # <<>>) => remote.task.assignees # <<>>

C4_Witness ==
    /\ op = "update" /\ pc = "done"
    /\ local.currentAssigneeIds = Some(<<1>>)
    /\ args.assignees = Some(<<2>>)
    /\ Len(calls) = 5
    /\ calls[4].name = "bulkAssignUsersToTask" /\ calls[4].outcome = "ok"
    /\ calls[5].name = "removeUserFromTask" /\ calls[5].outcome # "ok"
    /\ remote.task.assignees = <<1, 2>>

ScalarFields == {"title", "description", "dueDate", "priority", "done"}

\* Whether the request carries scalar field f with a value other than task's
ScalarDiffers(f, a, task) ==
    CASE f = "title" -> IsDef(a.title) /\ Val(a.title) # task.title
      [] f = "description" -> IsDef(a.description) /\ Val(a.description) # task.description
      [] f = "dueDate" -> IsDef(a.dueDate) /\ Val(a.dueDate) # task.due_date
      [] f = "priority" -> IsDef(a.priority) /\ Val(a.priority) # task.priority
      [] f = "done" -> IsDef(a.done) /\ Val(a.done) # task.done

\* C9: once the update workflow has fetched the task, each of title,
\* description, dueDate, priority and done is in affectedFields iff the request
\* carries it with a value other than the fetched one; a request of scalar
\* fields none of which differs has empty affectedFields; the update call is
\* issued exactly once all the same, and the response carries that list.
C9_ScalarAffectedFields ==
    (op = "update" /\ IsDef(local.updateState)) =>
        LET st == Val(local.updateState)
            fetched == InitialTask(<<2>>)
        IN  /\ st.currentTask = fetched
            /\ \A f \in ScalarFields :
                  Includes(st.affectedFields, f) <=> ScalarDiffers(f, args, fetched)
            /\ ((\A f \in ScalarFields : ~ScalarDiffers(f, args, fetched))
                   /\ args.assignees = None /\ args.repeatAfter = None
                   /\ args.repeatMode = None)
                  => st.affectedFields = <<>>
            /\ Cardinality(CallsNamed("updateTask")) = IF pc = "update" THEN 0 ELSE 1
            /\ result.status = "ok" => result.metadata.affectedFields = st.affectedFields

C9_Witness ==
    /\ op = "update" /\ pc = "done" /\ result.status = "ok"
    /\ args.priority = Some(3) /\ args.title = None /\ args.description = None
    /\ args.dueDate = None /\ args.done = None /\ args.assignees = None
    /\ args.repeatMode = None
    /\ result.metadata.affectedFields = <<>>
    /\ Cardinality(CallsNamed("updateTask")) = 1

----------------------------------------------------------------------------
(* Delete workflow: TaskDeletionService *)

\* Lines 28-34 of deleteTask: None when validation passes, else the error
deleteTaskValidate(a) ==
    IF ~TruthyNum(a.id)
    THEN Some(MCPError(ErrorCode.VALIDATION_ERROR, "delete: task id is required"))
    ELSE IF ~validateId(Val(a.id))
    THEN Some(MCPError(ErrorCode.VALIDATION_ERROR, "id must be a positive integer"))
    ELSE None

\* The catch clause of deleteTask (lines 70-90)
deleteTaskCatch(e, a) ==
    IF e.cls = "MCPError" THEN e
    ELSE IF IsFetchFailure(e) THEN handleFetchError(e, "delete task")
    ELSE IF TruthyNum(a.id) THEN handleStatusCodeError(e, "delete task")
    ELSE transformApiError(e, "Failed to delete task")

\* gatherDeletionContext that keeps no task whatever the fetch answered
gatherDeletionContext_NoTask(outcome, task) ==
    [taskToDelete |-> None, retrievalSuccess |-> outcome = "ok"]

\* gatherDeletionContext given the outcome of its getTask and the task the
\* remote service would return
gatherDeletionContext(outcome, task) ==
    IF outcome = "ok"
    THEN [taskToDelete |-> Some(task), retrievalSuccess |-> TRUE]
    ELSE [taskToDelete |-> None, retrievalSuccess |-> FALSE]

\* The success response of deleteTask (lines 44-60)
deleteTaskResponse(a, deletionContext) ==
    Success("delete-task",
            IF IsDef(deletionContext.taskToDelete)
            THEN [text |-> "Task <title> deleted successfully",
                  title |-> Some(Val(deletionContext.taskToDelete).title), id |-> None]
            ELSE [text |-> "Task <id> deleted successfully", title |-> None, id |-> a.id],
            IF IsDef(deletionContext.taskToDelete)
            THEN [task |-> deletionContext.taskToDelete, deletedTaskId |-> None]
            ELSE [task |-> None, deletedTaskId |-> a.id],
            [taskId |-> Val(a.id),
             taskTitle |-> IF IsDef(deletionContext.taskToDelete)
                              /\ Val(deletionContext.taskToDelete).title # ""
                           THEN Some(Val(deletionContext.taskToDelete).title)
                           ELSE None])

DeleteRequests == [id : {None, Some(0), Some(-1)} \cup {Some(i) : i \in 1..MaxTaskId}]

\* deleteTask(a) from its entry to its first await (lines 26-36)
DeleteEnter(a) ==
    /\ args' = a
    /\ op' = "delete"
    /\ local' = [deletionContext |-> None]
    /\ IF IsDef(deleteTaskValidate(a))
       THEN /\ result' = Failure(deleteTaskCatch(Val(deleteTaskValidate(a)), a))
            /\ pc' = "done"
       ELSE /\ result' = result
            /\ pc' = "prefetch"

\* A delete request arrives
DeleteInvoke ==
    /\ pc = "idle"
    /\ \E a \in DeleteRequests : DeleteEnter(a)
    /\ UNCHANGED <<remote, calls>>

\* DeletePrefetch with a failed getTask ending the workflow with that failure
DeletePrefetch_Propagates ==
    /\ op = "delete" /\ pc = "prefetch"
    /\ \E o \in Outcomes :
          /\ calls' = Append(calls, Call("getTask", Val(args.id), None, o))
          /\ local' = [local EXCEPT !.deletionContext =
                          Some(gatherDeletionContext(o, [remote.task EXCEPT !.id = Val(args.id)]))]
          /\ IF o = "ok"
             THEN pc' = "delete" /\ result' = result
             ELSE /\ pc' = "done"
                  /\ result' = Failure(deleteTaskCatch(RemoteError(o, "getTask"), args))
    /\ UNCHANGED <<op, args, remote>>

\* gatherDeletionContext's getTask (lines 39, 105-124)
DeletePrefetch ==
    /\ op = "delete" /\ pc = "prefetch"
    /\ \E o \in Outcomes :
          /\ calls' = Append(calls, Call("getTask", Val(args.id), None, o))
          /\ local' = [local EXCEPT !.deletionContext =
                          Some(gatherDeletionContext(o, [remote.task EXCEPT !.id = Val(args.id)]))]
    /\ pc' = "delete"
    /\ UNCHANGED <<op, args, remote, result>>

\* client.tasks.deleteTask and the response (lines 42-69)
DeleteCall ==
    /\ op = "delete" /\ pc = "delete"
    /\ \E o \in Outcomes :
          /\ calls' = Append(calls, Call("deleteTask", Val(args.id), None, o))
          /\ result' = IF o = "ok"
                       THEN deleteTaskResponse(args, Val(local.deletionContext))
                       ELSE Failure(deleteTaskCatch(RemoteError(o, "deleteTask"), args))
    /\ pc' = "done"
    /\ UNCHANGED <<op, args, remote, local>>

InitDelete ==
    /\ op = "none"
    /\ pc = "idle"
    /\ args = None
    /\ remote \in {[RemoteState(<<>>) EXCEPT !.task.title = t] : t \in {"A", ""}}
    /\ calls = <<>>
    /\ local = None
    /\ result = NoResult

NextDelete == DeleteInvoke \/ DeletePrefetch \/ DeleteCall
SpecDelete == InitDelete /\ [][NextDelete]_vars

\* The pre-fetch of the delete workflow failed: the task is already deleted or
\* cannot be accessed
PrefetchFailed ==
    /\ op = "delete" /\ Len(calls) >= 1
    /\ calls[1].name = "getTask" /\ calls[1].outcome # "ok"

----------------------------------------------------------------------------
(* List workflow: listTasks and the filtering orchestrator it calls *)

Tasks == 1..MaxTasks

\* Whether the orchestrator has an expression to evaluate: the request's own
\* filter expression, or the one stored under its saved-filter identifier
HasExpression(a) == TruthyStr(a.filter) \/ IsDef(a.filterId)

FilterMetadata(attempted, used) ==
    [serverSideFilteringUsed |-> used, serverSideFilteringAttempted |-> attempted]

\* The result of executeTaskFiltering: the task list and the path metadata
FilteringResult(tasks, attempted, used) ==
    [tasks |-> tasks, metadata |-> FilterMetadata(attempted, used)]

\* Whether a failure of the filtered list call is the remote service
\* rejecting the expression (anything but connectivity or authentication)
IsFilterRejection(kind) == kind \notin {"network", "auth"}

\* filteringMessage without the branch for the server-side fallback
filteringMessage_NoFallbackBranch(a, metadata) ==
    IF TruthyStr(a.filter)
    THEN IF metadata.serverSideFilteringUsed THEN "filtered server-side"
         ELSE "filtered client-side"
    ELSE ""

\* filteringMessage tagging requests that carry no filter expression too
filteringMessage_NoFilterCheck(a, metadata) ==
    IF metadata.serverSideFilteringUsed THEN "filtered server-side"
    ELSE IF metadata.serverSideFilteringAttempted
    THEN "filtered client-side - server-side fallback"
    ELSE "filtered client-side"

\* The filtering-method suffix of the response message (lines 66-76)
filteringMessage(a, metadata) ==
    IF TruthyStr(a.filter)
    THEN IF metadata.serverSideFilteringUsed THEN "filtered server-side"
         ELSE IF metadata.serverSideFilteringAttempted
         THEN "filtered client-side - server-side fallback"
         ELSE "filtered client-side"
    ELSE ""

\* The success response of listTasks (lines 78-92)
listTasksResponse(a, filteringResult) ==
    Success("list-tasks",
            [found |-> Len(filteringResult.tasks),
             tag |-> filteringMessage(a, filteringResult.metadata)],
            [tasks |-> filteringResult.tasks],
            [count |-> Len(filteringResult.tasks),
             serverSideFilteringUsed |-> filteringResult.metadata.serverSideFilteringUsed,
             serverSideFilteringAttempted |->
                 filteringResult.metadata.serverSideFilteringAttempted])

\* listTasksCatch wrapping every failure as a generic internal error
listTasksCatch_Generic(e) ==
    MCPError(ErrorCode.INTERNAL_ERROR, "Task operation error")

\* The catch clause of listTasks (lines 104-117)
listTasksCatch(e) ==
    IF e.cls = "MCPError" THEN e ELSE handleFetchError(e, "list tasks")

ListRequests ==
    [filter : {None, Some(""), Some("done = false"), Some("title like x")},
     filterId : {None, Some("saved-1")}]

\* A request arrives (line 64): the orchestrator picks the server-side
\* attempt when there is an expression and no known incompatibility
ListInvoke ==
    /\ pc = "idle"
    /\ \E a \in ListRequests, knownIncompatible \in BOOLEAN :
          /\ args' = a
          /\ local' = [attempted |-> FALSE]
          /\ pc' = IF HasExpression(a) /\ ~knownIncompatible THEN "server" ELSE "fetch"
    /\ op' = "list"
    /\ UNCHANGED <<remote, calls, result>>

\* The server-side attempt: the filtered list call
ListServerSide ==
    /\ op = "list" /\ pc = "server"
    /\ \E o \in Outcomes, n \in 0..MaxTasks :
          /\ calls' = Append(calls, Call("getTasks", 0, args.filter, o))
          /\ IF o = "ok"
             THEN /\ result' = listTasksResponse(args,
                                   FilteringResult(SubSeq(remote.list, 1, n), TRUE, TRUE))
                  /\ pc' = "done"
                  /\ local' = local
             ELSE IF IsFilterRejection(o)
             THEN /\ local' = [local EXCEPT !.attempted = TRUE]
                  /\ pc' = "fetch"
                  /\ result' = result
             ELSE /\ result' = Failure(listTasksCatch(RemoteError(o, "getTasks")))
                  /\ pc' = "done"
                  /\ local' = local
    /\ UNCHANGED <<op, args, remote>>

\* The unfiltered fetch, evaluated client-side when there is an expression
ListClientSide ==
    /\ op = "list" /\ pc = "fetch"
    /\ \E o \in Outcomes, n \in 0..MaxTasks :
          /\ calls' = Append(calls, Call("getAllTasks", 0, None, o))
          /\ result' =
                IF o = "ok"
                THEN listTasksResponse(args,
                         FilteringResult(
                             SubSeq(remote.list, 1, IF HasExpression(args) THEN n ELSE MaxTasks),
                             local.attempted, FALSE))
                ELSE Failure(listTasksCatch(RemoteError(o, "getAllTasks")))
    /\ pc' = "done"
    /\ UNCHANGED <<op, args, remote, local>>

InitList ==
    /\ op = "none"
    /\ pc = "idle"
    /\ args = None
    /\ remote = [list |-> [i \in Tasks |-> i]]
    /\ calls = <<>>
    /\ local = None
    /\ result = NoResult

NextList == ListInvoke \/ ListServerSide \/ ListClientSide
SpecList == InitList /\ [][NextList]_vars

----------------------------------------------------------------------------
(* Properties of the list workflow *)

FallbackTag == "filtered client-side - server-side fallback"

\* The filtered list call was issued first and failed with kinds' member
ServerSideFailed(kinds) ==
    /\ op = "list" /\ Len(calls) >= 1
    /\ calls[1].name = "getTasks" /\ calls[1].outcome \in kinds

\* C6: a list request with a filter expression that the remote service
\* rejects is not failed: the unfiltered fetch follows, and when that fetch
\* succeeds the response is a task list tagged as the client-side fallback,
\* with server-side filtering attempted and not used.
C6_RejectedFilterFallsBack ==
    (ServerSideFailed({"other"}) /\ TruthyStr(args.filter)) =>
        /\ Len(calls) = 1 => (pc = "fetch" /\ result.status = "none")
        /\ Len(calls) = 2 =>
              /\ calls[2].name = "getAllTasks" /\ pc = "done"
              /\ calls[2].outcome = "ok" =>
                    /\ result.status = "ok"
                    /\ result.operation = "list-tasks"
                    /\ result.message.tag = FallbackTag
                    /\ result.metadata.serverSideFilteringAttempted
                    /\ ~result.metadata.serverSideFilteringUsed

C6_Witness ==
    /\ ServerSideFailed({"other"}) /\ pc = "done"
    /\ args.filter = Some("title like x")
    /\ result.status = "ok"
    /\ result.message.tag = FallbackTag
    /\ result.message.found = 1

PathTags == {"filtered server-side", FallbackTag, "filtered client-side"}

\* C8: a successful list request with a filter expression is tagged with
\* exactly one of the three path tags, decided by the result metadata:
\* server-side iff serverSideFilteringUsed, fallback iff attempted and not
\* used, client-side iff neither; a request without a filter expression
\* carries none of the three tags.
C8_PathIndicator ==
    (op = "list" /\ result.status = "ok") =>
        LET tag == result.message.tag
            used == result.metadata.serverSideFilteringUsed
            attempted == result.metadata.serverSideFilteringAttempted
        IN  IF TruthyStr(args.filter)
            THEN /\ tag \in PathTags
                 /\ tag = "filtered server-side" <=> used
                 /\ tag = FallbackTag <=> (~used /\ attempted)
                 /\ tag = "filtered client-side" <=> (~used /\ ~attempted)
            ELSE tag \notin PathTags

C8_Witness ==
    /\ op = "list" /\ result.status = "ok"
    /\ args.filter = Some("done = false")
    /\ result.message.tag = "filtered client-side"
    /\ ~result.metadata.serverSideFilteringAttempted
    /\ Len(calls) = 1

----------------------------------------------------------------------------
(* Default project detection: InboxDetectionService *)

\* String.prototype.toLowerCase on the project titles of the model
ToLowerCase(t) ==
    CASE t = "Inbox" -> "inbox"
      [] t = "INBOX" -> "inbox"
      [] t = "Tasks" -> "tasks"
      [] t = "Work" -> "work"
      [] t = "Home" -> "home"
      [] OTHER -> t

\* Array.prototype.find, given the set of indices whose members pass the
\* test: the first such member, as an optional
FindFirst(list, hits) ==
    IF hits = {} THEN None
    ELSE Some(list[CHOOSE i \in hits : \A j \in hits : i <= j])

alternativeNames == <<"inbox", "default", "personal", "tasks">>

\* A selection that takes the first project of the list whatever its title
chooseInboxProject_FirstOnly(projects) ==
    IF Len(projects) > 0 /\ projects[1].id # 0 THEN Some(projects[1]) ELSE None

\* The body of findInboxProject's try block on the list getProjects returned:
\* the chosen project, or None when it throws "No projects found"
chooseInboxProject(projects) ==
    LET inboxProject ==
            FindFirst(projects, {i \in 1..Len(projects) :
                                   ToLowerCase(projects[i].title) = "inbox"})
        alternativeProject ==
            FindFirst(projects, {i \in 1..Len(projects) :
                                   Includes(alternativeNames, ToLowerCase(projects[i].title))})
    IN  IF IsDef(inboxProject) /\ Val(inboxProject).id # 0 THEN inboxProject
        ELSE IF IsDef(alternativeProject) /\ Val(alternativeProject).id # 0
        THEN alternativeProject
        ELSE IF Len(projects) > 0 /\ projects[1].id # 0 THEN Some(projects[1])
        ELSE None

\* What findInboxProject throws when it returns no project (lines 56-72)
findInboxProjectError(outcome) ==
    IF outcome = "ok"
    THEN MCPError(ErrorCode.VALIDATION_ERROR, "No projects found")
    ELSE Err("MCPError", ErrorCode.API_ERROR, "Failed to find a suitable project",
             outcome, "getProjects", None)

\* The error of validateProjectExists without the identifier in it
validateProjectExistsError_Anonymous(projectId, outcome) ==
    Err("MCPError", ErrorCode.VALIDATION_ERROR, "Project not found or not accessible",
        outcome, "getProject", None)

\* What validateProjectExists throws when getProject fails (lines 99-104)
validateProjectExistsError(projectId, outcome) ==
    Err("MCPError", ErrorCode.VALIDATION_ERROR, "Project with ID not found or not accessible",
        outcome, "getProject", Some([projectId |-> projectId]))

----------------------------------------------------------------------------
(* Create workflow: TaskCreationService *)

\* The identifier the remote service gives the task it creates
NewTaskId == 42

\* The catch clause of createTask (lines 176-193)
createTaskCatch(e) ==
    IF e.cls = "MCPError" THEN e
    ELSE IF IsFetchFailure(e) THEN handleFetchError(e, "create task")
    ELSE transformApiError(e, "Failed to create task")

\* The catch clause around findInboxProject (lines 63-68)
inboxDetectionCatch(inboxError) ==
    Err("MCPError", ErrorCode.VALIDATION_ERROR,
        "No projectId provided and failed to find Inbox project automatically",
        inboxError.kind, inboxError.origin, None)

\* Lines 74-88 of createTask: None when validation passes, else the error
createTaskValidate(a, projectId) ==
    IF ~validateId(projectId)
    THEN Some(MCPError(ErrorCode.VALIDATION_ERROR, "projectId must be a positive integer"))
    ELSE IF ~TruthyStr(a.title)
    THEN Some(MCPError(ErrorCode.VALIDATION_ERROR, "title is required to create a task"))
    ELSE IF TruthyChars(a.dueDate) /\ IsDef(validateDateString(Val(a.dueDate), "dueDate"))
    THEN validateDateString(Val(a.dueDate), "dueDate")
    ELSE IF IsDef(a.assignees) /\ \E i \in 1..Len(Val(a.assignees)) : ~validateId(Val(a.assignees)[i])
    THEN Some(MCPError(ErrorCode.VALIDATION_ERROR, "assignee ID must be a positive integer"))
    ELSE None

\* The task object sent to the create call (lines 93-111)
newTaskOf(a, projectId) ==
    LET repeatConfig ==
            IF IsDef(a.repeatAfter) \/ IsDef(a.repeatMode)
            THEN convertRepeatConfiguration(a.repeatAfter, a.repeatMode)
            ELSE [repeat_mode |-> None, repeat_after |-> None]
    IN  [title |-> Val(a.title), project_id |-> projectId,
         description |-> a.description, due_date |-> a.dueDate, priority |-> a.priority,
         repeat_after |-> repeatConfig.repeat_after, repeat_mode |-> repeatConfig.repeat_mode]

\* Whether the labels / assignees step runs (lines 125, 131)
labelsRequested(a, createdTask) ==
    IsDef(a.labels) /\ Len(Val(a.labels)) > 0 /\ TruthyNum(createdTask.id)
assigneesRequested(a, createdTask) ==
    IsDef(a.assignees) /\ Len(Val(a.assignees)) > 0 /\ TruthyNum(createdTask.id)

\* shouldRetry with every failure retried
shouldRetry_AnyFailure(call, kind) == TRUE

\* The shouldRetry predicate both secondary calls hand to withRetry
\* (lines 207, 233)
shouldRetry(call, kind) == isAuthenticationError(RemoteError(kind, call))

\* withRetry's decision after a failed attempt: whether another attempt follows
shouldRetryAgain(call, kind, attempts) ==
    shouldRetry(call, kind) /\ attempts < 1 + maxRetries

\* What addLabelsToTask / addAssigneesToTask throw once withRetry gave up
\* (lines 210-219, 236-245)
secondaryStepError(kind, call, authMessage) ==
    IF isAuthenticationError(RemoteError(kind, call))
    THEN Err("MCPError", ErrorCode.API_ERROR, authMessage, kind, call, None)
    ELSE RemoteError(kind, call)

\* markLabelsAdded that leaves the flag as it was
markLabelsAdded_Skipped(creationState) == creationState

\* creationState.labelsAdded = true (line 127) and
\* creationState.assigneesAdded = true (line 133)
markLabelsAdded(creationState) == [creationState EXCEPT !.labelsAdded = TRUE]
markAssigneesAdded(creationState) == [creationState EXCEPT !.assigneesAdded = TRUE]

\* A rollback error that reports the compensation as done whatever the
\* delete call answered
rollbackError_FlagIgnored(creationState, originalError, rollbackSucceeded) ==
    Err("MCPError", ErrorCode.API_ERROR,
        "Failed to complete task creation: " \o originalError.msg
            \o ". Task was successfully rolled back.",
        originalError.kind, originalError.origin,
        Some([taskId |-> creationState.createdTask.id,
              partiallyCreated |-> TRUE,
              labelsAdded |-> creationState.labelsAdded,
              assigneesAdded |-> creationState.assigneesAdded,
              rollbackSucceeded |-> TRUE]))

\* The error rollbackTaskCreation throws (lines 268-283); its message holds
\* the message of the error that ended the secondary step
rollbackError(creationState, originalError, rollbackSucceeded) ==
    Err("MCPError", ErrorCode.API_ERROR,
        "Failed to complete task creation: " \o originalError.msg \o ". "
            \o (IF rollbackSucceeded
                THEN "Task was successfully rolled back."
                ELSE "Task rollback also failed - manual cleanup may be required."),
        originalError.kind, originalError.origin,
        Some([taskId |-> creationState.createdTask.id,
              partiallyCreated |-> TRUE,
              labelsAdded |-> creationState.labelsAdded,
              assigneesAdded |-> creationState.assigneesAdded,
              rollbackSucceeded |-> rollbackSucceeded]))

\* The success response of createTask (lines 145-161)
createTaskResponse(a, completeTask, projectId, usedInboxDetection) ==
    Success("create-task", "Task created successfully", [task |-> completeTask],
            [projectId |-> projectId,
             labelsAdded |-> IF IsDef(a.labels) THEN Len(Val(a.labels)) > 0 ELSE FALSE,
             assigneesAdded |-> IF IsDef(a.assignees) THEN Len(Val(a.assignees)) > 0 ELSE FALSE,
             usedInboxDetection |-> usedInboxDetection])

CreateLocal0 ==
    [projectId |-> 0, usedInboxDetection |-> FALSE, creationState |-> None,
     attempts |-> 0, updateError |-> None]

CreateRequests ==
    [projectId : {None, Some(0), Some(-1), Some(5)},
     title : {None, Some(""), Some("A")},
     description : {None},
     dueDate : {None, Some(EmptyChars), Some(DateA), Some(DateNoMillis)},
     priority : {None},
     labels : {None, Some(<<>>), Some(<<1>>)},
     assignees : {None, Some(<<>>), Some(<<1>>), Some(<<0>>)},
     repeatAfter : {None, Some(2)},
     repeatMode : {None, Some("week")}]

\* A request arrives and runs to its first await (lines 48-56, 71)
CreateInvoke ==
    /\ pc = "idle"
    /\ \E a \in CreateRequests :
          /\ args' = a
          /\ pc' = IF ~TruthyNum(a.projectId) THEN "findInbox" ELSE "validateProject"
    /\ op' = "create"
    /\ local' = CreateLocal0
    /\ UNCHANGED <<remote, calls, result>>

\* Lines 74-111 once the project is known: to the create call, or out with
\* the validation error
CreateValidated(projectId, usedInboxDetection) ==
    /\ local' = [local EXCEPT !.projectId = projectId,
                              !.usedInboxDetection = usedInboxDetection]
    /\ IF IsDef(createTaskValidate(args, projectId))
       THEN /\ result' = Failure(createTaskCatch(Val(createTaskValidate(args, projectId))))
            /\ pc' = "done"
       ELSE /\ result' = result
            /\ pc' = "create"

\* findInboxProject's getProjects (lines 54-68; InboxDetectionService 15-73)
CreateFindInbox ==
    /\ op = "create" /\ pc = "findInbox"
    /\ \E o \in Outcomes :
          /\ calls' = Append(calls, Call("getProjects", 0, None, o))
          /\ IF o = "ok" /\ IsDef(chooseInboxProject(remote.projects))
             THEN CreateValidated(Val(chooseInboxProject(remote.projects)).id, TRUE)
             ELSE /\ result' = Failure(createTaskCatch(
                                   inboxDetectionCatch(findInboxProjectError(o))))
                  /\ pc' = "done"
                  /\ local' = local
    /\ UNCHANGED <<op, args, remote>>

\* validateProjectExists' getProject (lines 69-72; InboxDetectionService 94-105)
CreateValidateProject ==
    /\ op = "create" /\ pc = "validateProject"
    /\ \E o \in Outcomes :
          /\ calls' = Append(calls, Call("getProject", Val(args.projectId), None, o))
          /\ IF o = "ok"
             THEN CreateValidated(Val(args.projectId), FALSE)
             ELSE /\ result' = Failure(createTaskCatch(
                                   validateProjectExistsError(Val(args.projectId), o)))
                  /\ pc' = "done"
                  /\ local' = local
    /\ UNCHANGED <<op, args, remote>>

\* afterCreateStage with the assignees step ahead of the labels step
afterCreateStage_AssigneesFirst(stage, a, createdTask) ==
    IF stage = "create" /\ assigneesRequested(a, createdTask) THEN "assignees"
    ELSE IF stage \in {"create", "assignees"} /\ labelsRequested(a, createdTask)
    THEN "labels"
    ELSE "refetch"

\* Where createTask goes after stage ("create", "labels" or "assignees")
\* completed (lines 123-143)
afterCreateStage(stage, a, createdTask) ==
    IF stage = "create" /\ labelsRequested(a, createdTask) THEN "labels"
    ELSE IF stage \in {"create", "labels"} /\ assigneesRequested(a, createdTask)
    THEN "assignees"
    ELSE "refetch"

\* client.tasks.createTask (line 114); a created task without an identifier
\* is returned as it is, with no further call (line 143)
CreateBase ==
    /\ op = "create" /\ pc = "create"
    /\ \E o \in Outcomes, id \in {None, Some(NewTaskId)} :
          /\ calls' = Append(calls, Call("createTask", local.projectId,
                                         Some(newTaskOf(args, local.projectId)), o))
          /\ IF o = "ok"
             THEN LET createdTask == [id |-> id, task |-> newTaskOf(args, local.projectId)]
                  IN  /\ remote' = [remote EXCEPT !.created = Append(@, id)]
                      /\ local' = [local EXCEPT !.creationState =
                                      Some([createdTask |-> createdTask,
                                            labelsAdded |-> FALSE,
                                            assigneesAdded |-> FALSE]),
                                      !.attempts = 0]
                      /\ IF TruthyNum(id)
                         THEN /\ pc' = afterCreateStage("create", args, createdTask)
                              /\ result' = result
                         ELSE /\ pc' = "done"
                              /\ result' = createTaskResponse(args, createdTask,
                                               local.projectId, local.usedInboxDetection)
             ELSE /\ result' = Failure(createTaskCatch(RemoteError(o, "createTask")))
                  /\ pc' = "done"
                  /\ UNCHANGED <<remote, local>>
    /\ UNCHANGED <<op, args>>

\* One attempt of addLabelsToTask's updateTaskLabels under withRetry
\* (lines 125-128, 199-220)
CreateLabels ==
    /\ op = "create" /\ pc = "labels"
    /\ \E o \in Outcomes :
          /\ calls' = Append(calls, Call("updateTaskLabels", NewTaskId, args.labels, o))
          /\ IF o = "ok"
             THEN /\ remote' = [remote EXCEPT !.labels = Val(args.labels)]
                  /\ local' = [local EXCEPT !.creationState =
                                  Some(markLabelsAdded(Val(@))),
                                  !.attempts = 0]
                  /\ pc' = afterCreateStage("labels", args, Val(local.creationState).createdTask)
             ELSE IF shouldRetryAgain("updateTaskLabels", o, local.attempts + 1)
             THEN /\ local' = [local EXCEPT !.attempts = @ + 1]
                  /\ pc' = pc
                  /\ remote' = remote
             ELSE /\ local' = [local EXCEPT !.attempts = @ + 1, !.updateError =
                                  Some(secondaryStepError(o, "updateTaskLabels",
                                         "LABEL_CREATE (Retried maxRetries times). Task ID"))]
                  /\ pc' = "rollback"
                  /\ remote' = remote
    /\ UNCHANGED <<op, args, result>>

\* One attempt of addAssigneesToTask's bulkAssignUsersToTask under withRetry
\* (lines 131-134, 225-246)
CreateAssignees ==
    /\ op = "create" /\ pc = "assignees"
    /\ \E o \in Outcomes :
          /\ calls' = Append(calls, Call("bulkAssignUsersToTask", NewTaskId, args.assignees, o))
          /\ IF o = "ok"
             THEN /\ remote' = [remote EXCEPT !.task.assignees = AssignUsers(@, Val(args.assignees))]
                  /\ local' = [local EXCEPT !.creationState =
                                  Some(markAssigneesAdded(Val(@))),
                                  !.attempts = 0]
                  /\ pc' = afterCreateStage("assignees", args, Val(local.creationState).createdTask)
             ELSE IF shouldRetryAgain("bulkAssignUsersToTask", o, local.attempts + 1)
             THEN /\ local' = [local EXCEPT !.attempts = @ + 1]
                  /\ pc' = pc
                  /\ remote' = remote
             ELSE /\ local' = [local EXCEPT !.attempts = @ + 1, !.updateError =
                                  Some(secondaryStepError(o, "bulkAssignUsersToTask",
                                                          "ASSIGNEE_CREATE (Retried maxRetries times). Task ID"))]
                  /\ pc' = "rollback"
                  /\ remote' = remote
    /\ UNCHANGED <<op, args, result>>

\* Whether rollbackTaskCreation issues the compensating delete (line 258)
rollbackDeletes(creationState) == TruthyNum(creationState.createdTask.id)

\* rollbackTaskCreation (lines 136-140, 251-284)
CreateRollback ==
    /\ op = "create" /\ pc = "rollback"
    /\ \E o \in Outcomes :
          IF rollbackDeletes(Val(local.creationState))
          THEN /\ calls' = Append(calls, Call("deleteTask", NewTaskId, None, o))
               /\ remote' = IF o = "ok"
                            THEN [remote EXCEPT !.created = FilterOut(@, <<Some(NewTaskId)>>)]
                            ELSE remote
               /\ result' = Failure(createTaskCatch(
                                rollbackError(Val(local.creationState), Val(local.updateError),
                                              o = "ok")))
          ELSE /\ calls' = calls
               /\ remote' = remote
               /\ result' = Failure(createTaskCatch(
                                rollbackError(Val(local.creationState), Val(local.updateError),
                                              FALSE)))
    /\ pc' = "done"
    /\ UNCHANGED <<op, args, local>>

\* The final getTask and the response (lines 142-175)
CreateRefetch ==
    /\ op = "create" /\ pc = "refetch"
    /\ \E o \in Outcomes :
          /\ calls' = Append(calls, Call("getTask", NewTaskId, None, o))
          /\ result' =
                IF o = "ok"
                THEN createTaskResponse(args,
                         [Val(local.creationState).createdTask EXCEPT !.id = Some(NewTaskId)],
                         local.projectId, local.usedInboxDetection)
                ELSE Failure(createTaskCatch(RemoteError(o, "getTask")))
    /\ pc' = "done"
    /\ UNCHANGED <<op, args, remote, local>>

Project(id, title) == [id |-> id, title |-> title]

InitCreate ==
    /\ op = "none"
    /\ pc = "idle"
    /\ args = None
    /\ remote \in {[projects |-> ps, created |-> <<>>, labels |-> <<>>,
                    task |-> [assignees |-> <<>>]] :
                   ps \in {<<>>,
                           <<Project(5, "Work"), Project(6, "INBOX")>>,
                           <<Project(7, "Tasks"), Project(6, "Inbox")>>,
                           <<Project(5, "Work"), Project(7, "Tasks")>>,
                           <<Project(5, "Work"), Project(9, "Home")>>}}
    /\ calls = <<>>
    /\ local = None
    /\ result = NoResult

NextCreate ==
    \/ CreateInvoke
    \/ CreateFindInbox
    \/ CreateValidateProject
    \/ CreateBase
    \/ CreateLabels
    \/ CreateAssignees
    \/ CreateRollback
    \/ CreateRefetch

SpecCreate == InitCreate /\ [][NextCreate]_vars

----------------------------------------------------------------------------
(* Create workflow: claims *)

\* The message of the error that ended the secondary step
OriginalMessage == Val(local.updateError).msg

RolledBackMessage ==
    "Failed to complete task creation: " \o OriginalMessage
        \o ". Task was successfully rolled back."
RollbackFailedMessage ==
    "Failed to complete task creation: " \o OriginalMessage
        \o ". Task rollback also failed - manual cleanup may be required."

\* The create workflow ended after a secondary step (labels or assignees)
\* gave up on a task the create call had made
SecondaryStepFailed ==
    /\ op = "create" /\ pc = "done"
    /\ IsDef(local.updateError)

\* C1: whenever the base task was created and the labels or assignees step
\* ultimately fails, the workflow has issued exactly one deleteTask call, for
\* the created task and after the failed step; the error raised carries
\* rollbackSucceeded = TRUE exactly when that call succeeded, and its message
\* tells the two outcomes apart.  No delete call is issued otherwise.
C1_RollbackCompensation ==
    /\ SecondaryStepFailed =>
          /\ Cardinality(CallsNamed("createTask")) = 1
          /\ \A i \in CallsNamed("createTask") : calls[i].outcome = "ok"
          /\ Cardinality(CallsNamed("deleteTask")) = 1
          /\ calls[Len(calls)].name = "deleteTask"
          /\ calls[Len(calls)].id = Val(Val(local.creationState).createdTask.id)
          /\ result.status = "error"
          /\ result.error.cls = "MCPError"
          /\ result.error.code = ErrorCode.API_ERROR
          /\ IsDef(result.error.details)
          /\ Val(result.error.details).rollbackSucceeded
                <=> (calls[Len(calls)].outcome = "ok")
          /\ Val(result.error.details).rollbackSucceeded
                <=> (result.error.msg = RolledBackMessage)
          /\ ~Val(result.error.details).rollbackSucceeded
                <=> (result.error.msg = RollbackFailedMessage)
    /\ (op = "create" /\ ~SecondaryStepFailed) => CallsNamed("deleteTask") = {}

\* The assignees step gave up after the labels were applied, and the
\* compensating delete failed as well
C1_Witness ==
    /\ SecondaryStepFailed
    /\ Val(local.creationState).labelsAdded
    /\ calls[Len(calls)].name = "deleteTask"
    /\ calls[Len(calls)].outcome = "network"
    /\ Val(result.error.details).rollbackSucceeded = FALSE
    /\ Val(result.error.details).labelsAdded = TRUE

----------------------------------------------------------------------------
(* Repeat-policy conversion on its own *)

Intervals == 0..MaxInterval

RepeatRequests ==
    [repeatAfter : {None} \cup {Some(n) : n \in Intervals},
     repeatMode : {None} \cup {Some(m) : m \in RepeatModes}]

\* convertRepeatConfiguration applied to one pair of arguments
RepeatConvert ==
    /\ pc = "idle"
    /\ \E a \in RepeatRequests :
          /\ args' = a
          /\ result' = convertRepeatConfiguration(a.repeatAfter, a.repeatMode)
    /\ op' = "repeat"
    /\ pc' = "done"
    /\ UNCHANGED <<remote, calls, local>>

InitRepeat ==
    /\ op = "none"
    /\ pc = "idle"
    /\ args = None
    /\ remote = None
    /\ calls = <<>>
    /\ local = None
    /\ result = NoResult

NextRepeat == RepeatConvert

SpecRepeat == InitRepeat /\ [][NextRepeat]_vars

\* C10: for every interval n >= 0, (n, day) gives n * 86400 seconds,
\* (n, week) gives n * 604800 and (n, year) gives n * 31536000, each with
\* mode flag 0; for the unit month the mode flag is 1 for every n and also
\* when no interval is given.
C10_RepeatConversion ==
    (op = "repeat" /\ pc = "done") =>
        /\ \A n \in Intervals :
              args.repeatAfter = Some(n) =>
                 /\ args.repeatMode = Some("day") =>
                       result = [repeat_mode |-> Some(0), repeat_after |-> Some(n * 86400)]
                 /\ args.repeatMode = Some("week") =>
                       result = [repeat_mode |-> Some(0), repeat_after |-> Some(n * 604800)]
                 /\ args.repeatMode = Some("year") =>
                       result = [repeat_mode |-> Some(0), repeat_after |-> Some(n * 31536000)]
        /\ args.repeatMode = Some("month") => result.repeat_mode = Some(1)

\* Two weeks come out as 1209600 seconds with the interval mode
C10_Witness ==
    /\ op = "repeat" /\ pc = "done"
    /\ args = [repeatAfter |-> Some(2), repeatMode |-> Some("week")]
    /\ result = [repeat_mode |-> Some(0), repeat_after |-> Some(1209600)]

\* Month with no interval given still comes out with the monthly mode
C10_WitnessMonth ==
    /\ op = "repeat" /\ pc = "done"
    /\ args = [repeatAfter |-> None, repeatMode |-> Some("month")]
    /\ result = [repeat_mode |-> Some(1), repeat_after |-> None]

----------------------------------------------------------------------------
(* Date validator on its own *)

Pad2(n) == <<DigitChars[(n \div 10) + 1], DigitChars[(n % 10) + 1]>>
Pad3(n) == <<DigitChars[(n \div 100) + 1]>> \o Pad2(n % 100)
Pad4(n) == Pad2(n \div 100) \o Pad2(n % 100)

\* The characters of YYYY-MM-DDTHH:mm:ss.sssZ for the given numbers
IsoString(y, mo, d, h, mi, sec, ms) ==
    Pad4(y) \o <<"-">> \o Pad2(mo) \o <<"-">> \o Pad2(d) \o <<"T">> \o Pad2(h)
    \o <<":">> \o Pad2(mi) \o <<":">> \o Pad2(sec) \o <<".">> \o Pad3(ms) \o <<"Z">>

\* "2025-10-30"
DateOnly == <<"2", "0", "2", "5", "-", "1", "0", "-", "3", "0">>
\* "2025-10-30T04:05:22.422z"
DateLowerZ == [DateA EXCEPT ![24] = "z"]
\* "2025-10-30 04:05:22.422Z"
DateSpace == [DateA EXCEPT ![11] = " "]
\* "2025-10-30T04:05:22.4222Z"
DateFourFraction == SubSeq(DateA, 1, 23) \o <<"2", "Z">>

DateStrings ==
    {IsoString(y, mo, d, h, mi, sec, ms) :
        y \in {2024, 2025}, mo \in {0, 1, 2, 4, 12, 13}, d \in {0, 1, 28, 29, 30, 31, 32},
        h \in {0, 23, 24, 25}, mi \in {0, 59, 60}, sec \in {0, 59, 60}, ms \in {0, 422}}
    \cup {DateA, DateB, DateNoMillis, DateMonth13, DateOnly, DateLowerZ, DateSpace,
          DateFourFraction, EmptyChars}

\* What a call of validateDateString comes to: it returned, or it threw
Returned == [status |-> "ok"]

\* validateDateString(date, 'dueDate') applied to one string
DateValidate ==
    /\ pc = "idle"
    /\ \E date \in DateStrings :
          /\ args' = date
          /\ result' = IF IsDef(validateDateString(date, "dueDate"))
                       THEN Failure(Val(validateDateString(date, "dueDate")))
                       ELSE Returned
    /\ op' = "date"
    /\ pc' = "done"
    /\ UNCHANGED <<remote, calls, local>>

InitDate ==
    /\ op = "none"
    /\ pc = "idle"
    /\ args = None
    /\ remote = None
    /\ calls = <<>>
    /\ local = None
    /\ result = NoResult

NextDate == DateValidate

SpecDate == InitDate /\ [][NextDate]_vars

----------------------------------------------------------------------------
(* Date validator: claims *)

IsLeapYear(y) == (y % 4 = 0 /\ y % 100 # 0) \/ y % 400 = 0

DaysInMonth(y, mo) ==
    IF mo = 2 THEN (IF IsLeapYear(y) THEN 29 ELSE 28)
    ELSE IF mo \in {4, 6, 9, 11} THEN 30
    ELSE 31

\* A string that matches the pattern names a date of the calendar and a
\* time of the day (24:00:00.000, the end of the day, included)
IsRealDateTime(s) ==
    /\ Num2(s, 6) \in 1..12
    /\ Num2(s, 9) >= 1
    /\ Num2(s, 9) <= DaysInMonth(100 * Num2(s, 1) + Num2(s, 3), Num2(s, 6))
    /\ Num2(s, 15) \in 0..59
    /\ Num2(s, 18) \in 0..59
    /\ \/ Num2(s, 12) \in 0..23
       \/ Num2(s, 12) = 24 /\ Num2(s, 15) = 0 /\ Num2(s, 18) = 0 /\ Num3(s, 21) = 0

\* C11: validateDateString returns normally iff the string matches
\* YYYY-MM-DDTHH:mm:ss.sssZ exactly and names a real calendar date and time;
\* otherwise it fails with a ValidationError.
C11_ValidIffRealDate ==
    (op = "date" /\ pc = "done") =>
        /\ result = Returned <=> (isoWithMillisecondsRegex(args) /\ IsRealDateTime(args))
        /\ result # Returned =>
              /\ result.status = "error"
              /\ result.error.cls = "MCPError"
              /\ result.error.code = ErrorCode.VALIDATION_ERROR

\* "2025-02-30T04:05:22.422Z", a day February does not have, is accepted
C11_Witness ==
    /\ op = "date" /\ pc = "done"
    /\ args = IsoString(2025, 2, 30, 0, 0, 0, 422)
    /\ result = Returned

----------------------------------------------------------------------------
(* Get workflow: TaskReadService *)

\* Lines 24-30 of getTask: None when validation passes, else the error
getTaskValidate(a) ==
    IF ~TruthyNum(a.id)
    THEN Some(MCPError(ErrorCode.VALIDATION_ERROR, "get: task id is required"))
    ELSE IF ~validateId(Val(a.id))
    THEN Some(MCPError(ErrorCode.VALIDATION_ERROR, "id must be a positive integer"))
    ELSE None

\* The catch clause of getTask (lines 57-78)
getTaskCatch(e, a) ==
    IF e.cls = "MCPError" THEN e
    ELSE IF IsFetchFailure(e) THEN handleFetchError(e, "get task")
    ELSE IF TruthyNum(a.id) THEN handleStatusCodeError(e, "get task")
    ELSE transformApiError(e, "Failed to get task")

GetRequests == [id : {None, Some(0), Some(-1), Some(TaskId)}]

\* getTask(a) from its entry to its first await (lines 22-32)
GetEnter(a) ==
    /\ args' = a
    /\ op' = "get"
    /\ local' = None
    /\ IF IsDef(getTaskValidate(a))
       THEN /\ result' = Failure(getTaskCatch(Val(getTaskValidate(a)), a))
            /\ pc' = "done"
       ELSE /\ result' = result
            /\ pc' = "fetch"

\* A get request arrives
GetInvoke ==
    /\ pc = "idle"
    /\ \E a \in GetRequests : GetEnter(a)
    /\ UNCHANGED <<remote, calls>>

\* client.tasks.getTask and the response (lines 33-56)
GetFetch ==
    /\ op = "get" /\ pc = "fetch"
    /\ \E o \in Outcomes :
          /\ calls' = Append(calls, Call("getTask", Val(args.id), None, o))
          /\ result' =
                IF o = "ok"
                THEN Success("get-task", "Retrieved task", [task |-> remote.task],
                             [taskId |-> Val(args.id)])
                ELSE Failure(getTaskCatch(RemoteError(o, "getTask"), args))
    /\ pc' = "done"
    /\ UNCHANGED <<op, args, remote, local>>

----------------------------------------------------------------------------
(* Relation workflows: handleRelationSubcommands *)

\* The own keys of RELATION_KIND_MAP
RelationKinds ==
    {"unknown", "subtask", "parenttask", "related", "duplicateof", "duplicates",
     "blocking", "blocked", "precedes", "follows", "copiedfrom", "copiedto"}

\* Names every object literal inherits from Object.prototype
InheritedKeys == {"constructor", "toString", "valueOf", "hasOwnProperty", "__proto__"}

\* RELATION_KIND_MAP[kind], a property lookup on an object literal: the
\* mapped string for an own key, the inherited member (a function or an
\* object, truthy) for a name of Object.prototype, undefined otherwise
RELATION_KIND_MAP(kind) ==
    IF kind \in RelationKinds THEN Some(kind)
    ELSE IF kind \in InheritedKeys THEN Some("[inherited member]")
    ELSE None

\* wrapToolError: an MCPError comes out as it is; any other error as an
\* MCPError carrying its cause
wrapToolError(e, operation) ==
    IF e.cls = "MCPError" THEN e
    ELSE Err("MCPError", ErrorCode.API_ERROR, operation, e.kind, e.origin, None)

\* The checks of the relate case (lines 71-100): None when they pass
relateValidate(a) ==
    IF ~TruthyNum(a.id)
    THEN Some(MCPError(ErrorCode.VALIDATION_ERROR, "relate: task id is required"))
    ELSE IF ~validateId(Val(a.id))
    THEN Some(MCPError(ErrorCode.VALIDATION_ERROR, "Task ID must be a positive integer"))
    ELSE IF ~TruthyNum(a.otherTaskId)
    THEN Some(MCPError(ErrorCode.VALIDATION_ERROR, "relate: other task id is required"))
    ELSE IF ~validateId(Val(a.otherTaskId))
    THEN Some(MCPError(ErrorCode.VALIDATION_ERROR, "Other task ID must be a positive integer"))
    ELSE IF ~TruthyStr(a.relationKind)
    THEN Some(MCPError(ErrorCode.VALIDATION_ERROR, "relate: relation kind is required"))
    ELSE IF ~IsDef(RELATION_KIND_MAP(Val(a.relationKind)))
    THEN Some(MCPError(ErrorCode.VALIDATION_ERROR, "Invalid relation kind"))
    ELSE None

\* The checks of the unrelate case (lines 144-164): None when they pass
unrelateValidate(a) ==
    IF ~TruthyNum(a.id)
    THEN Some(MCPError(ErrorCode.VALIDATION_ERROR, "Task ID is required"))
    ELSE IF ~validateId(Val(a.id))
    THEN Some(MCPError(ErrorCode.VALIDATION_ERROR, "Task ID must be a positive integer"))
    ELSE IF ~TruthyNum(a.otherTaskId)
    THEN Some(MCPError(ErrorCode.VALIDATION_ERROR, "Other task ID is required"))
    ELSE IF ~validateId(Val(a.otherTaskId))
    THEN Some(MCPError(ErrorCode.VALIDATION_ERROR, "Other task ID must be a positive integer"))
    ELSE IF ~TruthyStr(a.relationKind)
    THEN Some(MCPError(ErrorCode.VALIDATION_ERROR, "Relation kind is required"))
    ELSE IF ~IsDef(RELATION_KIND_MAP(Val(a.relationKind)))
    THEN Some(MCPError(ErrorCode.VALIDATION_ERROR, "Invalid relation kind"))
    ELSE None

\* The checks of the relations case (lines 208-211): None when they pass
relationsValidate(a) ==
    IF ~TruthyNum(a.id)
    THEN Some(MCPError(ErrorCode.VALIDATION_ERROR, "Task ID is required"))
    ELSE IF ~validateId(Val(a.id))
    THEN Some(MCPError(ErrorCode.VALIDATION_ERROR, "Task ID must be a positive integer"))
    ELSE None

\* The checks of the case the subcommand selects
relationValidate(a) ==
    CASE a.subcommand = "relate" -> relateValidate(a)
      [] a.subcommand = "unrelate" -> unrelateValidate(a)
      [] a.subcommand = "relations" -> relationsValidate(a)
      [] OTHER -> Some(MCPError(ErrorCode.VALIDATION_ERROR, "Invalid relation subcommand"))

\* The operation name each case hands to wrapToolError
relationOperation(a) ==
    CASE a.subcommand = "relate" -> "create task relation"
      [] a.subcommand = "unrelate" -> "remove task relation"
      [] OTHER -> "get task relations"

\* The relation call with the two task identifiers exchanged
relationCallOf_Swapped(a) ==
    [name |-> IF a.subcommand = "relate" THEN "createTaskRelation" ELSE "deleteTaskRelation",
     task_id |-> Val(a.otherTaskId),
     other_task_id |-> Val(a.id),
     relation_kind |-> Val(RELATION_KIND_MAP(Val(a.relationKind)))]

\* The relation call of relate (lines 103-107) and of unrelate (lines
\* 167-171): the task it is issued on, the other task and the kind
relationCallOf(a) ==
    [name |-> IF a.subcommand = "relate" THEN "createTaskRelation" ELSE "deleteTaskRelation",
     task_id |-> Val(a.id),
     other_task_id |-> Val(a.otherTaskId),
     relation_kind |-> Val(RELATION_KIND_MAP(Val(a.relationKind)))]

\* The task client.tasks.getTask(id) returns, with its relations
FetchedTask(id, relations) ==
    [id |-> id, related_tasks |-> {r \in relations : r.task_id = id}]

RelationRequests ==
    [subcommand : {"relate", "unrelate", "relations", "bogus"},
     id : {None, Some(0), Some(-1), Some(1), Some(2)},
     otherTaskId : {None, Some(0), Some(-1), Some(1), Some(2)},
     relationKind : {None, Some(""), Some("subtask"), Some("related"), Some("bogus"),
                     Some("constructor")}]

\* handleRelationSubcommands(a) from its entry to its first remote call
\* (lines 63-100, 142-164, 206-211, 245-246)
RelationEnter(a) ==
    /\ args' = a
    /\ op' = "relation"
    /\ local' = None
    /\ IF IsDef(relationValidate(a))
       THEN /\ result' = Failure(wrapToolError(Val(relationValidate(a)), relationOperation(a)))
            /\ pc' = "done"
       ELSE /\ result' = result
            /\ pc' = IF a.subcommand = "relations" THEN "relationFetch" ELSE "relationCall"

\* A relation request arrives
RelationInvoke ==
    /\ pc = "idle"
    /\ \E a \in RelationRequests : RelationEnter(a)
    /\ UNCHANGED <<remote, calls>>

\* createTaskRelation / deleteTaskRelation (lines 102-107, 166-171)
RelationCall ==
    /\ op = "relation" /\ pc = "relationCall"
    /\ \E o \in Outcomes :
          LET c == relationCallOf(args)
              relation == [task_id |-> c.task_id, other_task_id |-> c.other_task_id,
                           relation_kind |-> c.relation_kind]
          IN  /\ calls' = Append(calls, Call(c.name, c.task_id, Some(relation), o))
              /\ IF o = "ok"
                 THEN /\ remote' = [remote EXCEPT !.relations =
                                       IF c.name = "createTaskRelation"
                                       THEN @ \cup {relation} ELSE @ \ {relation}]
                      /\ pc' = "relationFetch"
                      /\ result' = result
                 ELSE /\ remote' = remote
                      /\ pc' = "done"
                      /\ result' = Failure(wrapToolError(RemoteError(o, c.name),
                                                         relationOperation(args)))
    /\ UNCHANGED <<op, args, local>>

\* The getTask of each case and the response (lines 109-136, 173-200, 213-239)
RelationFetch ==
    /\ op = "relation" /\ pc = "relationFetch"
    /\ \E o \in Outcomes :
          /\ calls' = Append(calls, Call("getTask", Val(args.id), None, o))
          /\ result' =
                IF o = "ok"
                THEN Success(args.subcommand, "relation response",
                             [task |-> FetchedTask(Val(args.id), remote.relations)],
                             IF args.subcommand = "relations"
                             THEN [count |-> Cardinality(
                                      FetchedTask(Val(args.id), remote.relations).related_tasks)]
                             ELSE [affectedFields |-> <<"related_tasks">>])
                ELSE Failure(wrapToolError(RemoteError(o, "getTask"), relationOperation(args)))
    /\ pc' = "done"
    /\ UNCHANGED <<op, args, remote, local>>

InitRelation ==
    /\ op = "none"
    /\ pc = "idle"
    /\ args = None
    /\ remote \in {[task |-> InitialTask(<<2>>), labels |-> <<7>>, relations |-> rs] :
                   rs \in {{}, {[task_id |-> 1, other_task_id |-> 2,
                                 relation_kind |-> "subtask"]}}}
    /\ calls = <<>>
    /\ local = None
    /\ result = NoResult

NextRelation == RelationInvoke \/ RelationCall \/ RelationFetch

SpecRelation == InitRelation /\ [][NextRelation]_vars

----------------------------------------------------------------------------
(* The tasks tool: the dispatcher of index.ts *)

\* The requirement applied to get, update and delete only
validateTaskIdRequirement_CrudOnly(a) ==
    IF a.subcommand \in {"get", "update", "delete"} /\ ~TruthyNum(a.id)
    THEN Some(MCPError(ErrorCode.VALIDATION_ERROR,
                       CASE a.subcommand = "get" -> "tool get: task id is required"
                         [] a.subcommand = "update" -> "tool update: task id is required"
                         [] OTHER -> "tool delete: task id is required"))
    ELSE None

subcommandsRequiringId == {"get", "update", "delete", "relate", "unrelate", "relations"}

\* The message of validateTaskIdRequirement for each subcommand: it quotes
\* the subcommand and gives the example { "subcommand": <it>, "id": 123 }
toolIdRequiredMessage(subcommand) ==
    CASE subcommand = "get" -> "tool get: task id is required"
      [] subcommand = "update" -> "tool update: task id is required"
      [] subcommand = "delete" -> "tool delete: task id is required"
      [] subcommand = "relate" -> "tool relate: task id is required"
      [] subcommand = "unrelate" -> "tool unrelate: task id is required"
      [] OTHER -> "tool relations: task id is required"

\* validateTaskIdRequirement: None when it returns, else the error thrown
validateTaskIdRequirement(a) ==
    IF a.subcommand \in subcommandsRequiringId /\ ~TruthyNum(a.id)
    THEN Some(MCPError(ErrorCode.VALIDATION_ERROR, toolIdRequiredMessage(a.subcommand)))
    ELSE None

\* createAuthRequiredError('access task management features')
createAuthRequiredError ==
    Err("MCPError", "AUTH_REQUIRED", "Authentication required", "none", "local", None)

\* The catch clause of the tool handler (lines 332-339)
toolCatch(e) ==
    IF e.cls = "MCPError" THEN e
    ELSE Err("MCPError", ErrorCode.INTERNAL_ERROR, "Task operation error",
             e.kind, e.origin, None)

\* What the tool accepts for the subcommands of the model; the schema admits
\* only kinds of the vocabulary
ToolRequests ==
    [subcommand : subcommandsRequiringId \cup {"bogus"},
     id : {None, Some(0), Some(TaskId)},
     otherTaskId : {None, Some(2)},
     relationKind : {None, Some("subtask")},
     title : {None, Some("B")},
     description : {None},
     dueDate : {None},
     priority : {None},
     done : {None},
     labels : {None},
     assignees : {None},
     repeatAfter : {None},
     repeatMode : {None}]

\* The switch of the tool handler (lines 254-331) on a request that passed
\* the checks before it
toolDispatch(a) ==
    CASE a.subcommand = "get" -> GetEnter(a)
      [] a.subcommand = "update" -> UpdateEnter(a)
      [] a.subcommand = "delete" -> DeleteEnter(a)
      [] a.subcommand \in {"relate", "unrelate", "relations"} ->
            RelationEnter([subcommand |-> a.subcommand, id |-> a.id,
                           otherTaskId |-> a.otherTaskId, relationKind |-> a.relationKind])
      [] OTHER ->
            /\ args' = a
            /\ op' = "tool"
            /\ local' = [authenticated |-> TRUE,
                         reached |-> <<"auth", "client", "validate", "switch">>]
            /\ result' = Failure(toolCatch(MCPError(ErrorCode.VALIDATION_ERROR,
                                                    "Unknown subcommand")))
            /\ pc' = "done"

\* A request arrives at the tool and runs to the first await of the handler
\* it is dispatched to (lines 234-340).  reached lists the stages the handler
\* went through: the authentication check (239), getClientFromContext (249),
\* validateTaskIdRequirement (252) and the switch (254)
ToolInvoke ==
    /\ pc = "idle"
    /\ \E a \in ToolRequests, authenticated \in BOOLEAN :
          IF ~authenticated
          THEN /\ args' = a
               /\ op' = "tool"
               /\ local' = [authenticated |-> FALSE, reached |-> <<"auth">>]
               /\ result' = Failure(toolCatch(createAuthRequiredError))
               /\ pc' = "done"
          ELSE IF IsDef(validateTaskIdRequirement(a))
          THEN /\ args' = a
               /\ op' = "tool"
               /\ local' = [authenticated |-> TRUE,
                            reached |-> <<"auth", "client", "validate">>]
               /\ result' = Failure(toolCatch(Val(validateTaskIdRequirement(a))))
               /\ pc' = "done"
          ELSE toolDispatch(a)
    /\ UNCHANGED <<remote, calls>>

\* Requests made of the update service directly
DirectUpdateRequests ==
    [id : {None, Some(0), Some(TaskId)},
     title : {None, Some("B")},
     description : {None},
     dueDate : {None},
     priority : {None},
     done : {None},
     labels : {None},
     assignees : {None, Some(<<1>>)},
     repeatAfter : {None},
     repeatMode : {None}]

NextTool ==
    \/ ToolInvoke
    \/ GetInvoke
    \/ GetFetch
    \/ UpdateInvoke(DirectUpdateRequests)
    \/ UpdateSteps
    \/ DeleteInvoke
    \/ DeletePrefetch
    \/ DeleteCall
    \/ RelationCall
    \/ RelationFetch

SpecTool == InitRelation /\ [][NextTool]_vars

----------------------------------------------------------------------------
(* Identifier requirement: claims *)

\* The request came through the tool handler
ViaTool == op # "none" /\ "subcommand" \in DOMAIN args

\* The error of each service for a request without an identifier: each text
\* names the operation and carries an example request for it
serviceIdRequiredMessage(operation) ==
    CASE operation = "get" -> "get: task id is required"
      [] operation = "update" -> "update: task id is required"
      [] OTHER -> "delete: task id is required"

\* C12: get, update and delete called without an id (absent or 0) fail with
\* the ValidationError that names the operation and gives an example, and no
\* remote call is issued; the tool handler makes the same check for get,
\* update, delete, relate, unrelate and relations before it dispatches, so
\* no handler is entered through the tool without an id.
C12_IdRequired ==
    /\ (op \in {"get", "update", "delete"} /\ ~TruthyNum(args.id)) =>
          /\ pc = "done"
          /\ result = Failure(MCPError(ErrorCode.VALIDATION_ERROR,
                                       serviceIdRequiredMessage(op)))
          /\ calls = <<>>
    /\ (ViaTool /\ args.subcommand \in subcommandsRequiringId /\ ~TruthyNum(args.id)) =>
          /\ op = "tool" /\ pc = "done"
          /\ calls = <<>>
          /\ local.authenticated =>
                result = Failure(MCPError(ErrorCode.VALIDATION_ERROR,
                                          toolIdRequiredMessage(args.subcommand)))

\* A relate request with id 0 is stopped by the tool handler
C12_Witness ==
    /\ ViaTool /\ op = "tool" /\ pc = "done"
    /\ args.subcommand = "relate" /\ args.id = Some(0)
    /\ local.authenticated
    /\ result.error.msg = "tool relate: task id is required"

----------------------------------------------------------------------------
(* Relation workflows: claims *)

\* id and otherTaskId are present and at least 1, and relationKind is present
\* and one of the kinds of the vocabulary
RelationRequestValid(a) ==
    /\ IsDef(a.id) /\ Val(a.id) >= 1
    /\ IsDef(a.otherTaskId) /\ Val(a.otherTaskId) >= 1
    /\ IsDef(a.relationKind) /\ Val(a.relationKind) \in RelationKinds

\* C13: relate and unrelate issue the relation call only for a request whose
\* id and otherTaskId are integers >= 1 and whose relationKind is a kind of
\* the closed vocabulary; every other request fails with a ValidationError
\* and issues neither a relation call nor a task fetch.
C13_RelationCallOnlyWhenValid ==
    (op = "relation" /\ args.subcommand \in {"relate", "unrelate"}
        /\ ~RelationRequestValid(args)) =>
        /\ pc = "done"
        /\ calls = <<>>
        /\ result.status = "error"
        /\ result.error.cls = "MCPError"
        /\ result.error.code = ErrorCode.VALIDATION_ERROR

\* A relate request whose kind is "constructor", a name outside the
\* vocabulary, has had its relation call issued and accepted
C13_Witness ==
    /\ op = "relation" /\ args.subcommand = "relate"
    /\ args.relationKind = Some("constructor")
    /\ Len(calls) = 1
    /\ calls[1].name = "createTaskRelation" /\ calls[1].outcome = "ok"


\* C14: in every relate and unrelate request the relation call is issued on
\* the task id with otherTaskId as the other task, never the other way
\* round, and the task fetched and returned afterwards is the task id.
C14_RelationDirection ==
    (op = "relation" /\ args.subcommand \in {"relate", "unrelate"}) =>
        /\ \A i \in 1..Len(calls) :
              IF calls[i].name = "getTask"
              THEN calls[i].id = Val(args.id)
              ELSE /\ calls[i].name = (IF args.subcommand = "relate"
                                       THEN "createTaskRelation" ELSE "deleteTaskRelation")
                   /\ calls[i].id = Val(args.id)
                   /\ Val(calls[i].payload).task_id = Val(args.id)
                   /\ Val(calls[i].payload).other_task_id = Val(args.otherTaskId)
        /\ (pc = "done" /\ result.status = "ok") =>
              /\ Len(calls) = 2
              /\ calls[1].name # "getTask" /\ calls[2].name = "getTask"
              /\ result.data.task.id = Val(args.id)

\* Task 2 was made the owner of a subtask relation to task 1 and returned
C14_Witness ==
    /\ op = "relation" /\ pc = "done"
    /\ args = [subcommand |-> "relate", id |-> Some(2), otherTaskId |-> Some(1),
               relationKind |-> Some("subtask")]
    /\ result.status = "ok"
    /\ result.data.task.id = 2
    /\ [task_id |-> 2, other_task_id |-> 1, relation_kind |-> "subtask"]
          \in result.data.task.related_tasks

----------------------------------------------------------------------------
(* Project resolution of the create workflow: claims *)

\* The first project of the list among those at the indices hits
FirstAt(projects, hits) == projects[CHOOSE i \in hits : \A j \in hits : i <= j]

InboxTitled(projects) ==
    {i \in 1..Len(projects) : ToLowerCase(projects[i].title) = "inbox"}

DefaultTitled(projects) ==
    {i \in 1..Len(projects) :
        ToLowerCase(projects[i].title) \in {"inbox", "default", "personal", "tasks"}}

\* The project the resolution is to give for a list that is not empty
ExpectedDefaultProject(projects) ==
    IF InboxTitled(projects) # {} THEN FirstAt(projects, InboxTitled(projects))
    ELSE IF DefaultTitled(projects) # {} THEN FirstAt(projects, DefaultTitled(projects))
    ELSE projects[1]

\* The create workflow got the project list for a request without projectId
ResolvedByDefault ==
    /\ op = "create" /\ pc # "findInbox"
    /\ ~TruthyNum(args.projectId)
    /\ Len(calls) >= 1 /\ calls[1].name = "getProjects" /\ calls[1].outcome = "ok"

\* C15: with no projectId supplied, the create workflow takes the project
\* titled "inbox" in any letter case if there is one, else a project with one
\* of the conventional default titles, else the first project of the list;
\* for an empty list it fails with the error that asks for an explicit
\* projectId and never issues the create call.
C15_DefaultProjectResolution ==
    ResolvedByDefault =>
        IF remote.projects = <<>>
        THEN /\ pc = "done"
             /\ result = Failure(MCPError(ErrorCode.VALIDATION_ERROR,
                   "No projectId provided and failed to find Inbox project automatically"))
             /\ CallsNamed("createTask") = {}
        ELSE /\ local.usedInboxDetection
             /\ local.projectId = ExpectedDefaultProject(remote.projects).id
             /\ \A i \in CallsNamed("createTask") :
                   /\ calls[i].id = ExpectedDefaultProject(remote.projects).id
                   /\ Val(calls[i].payload).project_id
                         = ExpectedDefaultProject(remote.projects).id

\* "Inbox" is second in the list, behind "Tasks", and is the project the
\* task was created in
C15_Witness ==
    /\ ResolvedByDefault
    /\ remote.projects = <<Project(7, "Tasks"), Project(6, "Inbox")>>
    /\ pc = "done" /\ result.status = "ok"
    /\ result.metadata.projectId = 6
    /\ result.metadata.usedInboxDetection


\* The fetch of the supplied project failed
SuppliedProjectMissing ==
    /\ op = "create" /\ TruthyNum(args.projectId)
    /\ Len(calls) >= 1
    /\ calls[1].name = "getProject" /\ calls[1].outcome # "ok"

----------------------------------------------------------------------------
(* Update payload *)

\* Update requests that vary which scalar and repeat fields are supplied
MergeRequests ==
    [id : {Some(TaskId)},
     title : {None, Some("B")},
     description : {None, Some("e")},
     dueDate : {None, Some(DateB)},
     priority : {None, Some(4)},
     done : {None, Some(TRUE)},
     labels : {None},
     assignees : {None, Some(<<1>>), Some(<<2>>)},
     repeatAfter : {None, Some(2)},
     repeatMode : {None, Some("week"), Some("month")}]

\* The stored task repeats by interval, or monthly
InitMerge ==
    /\ op = "none"
    /\ pc = "idle"
    /\ args = None
    /\ remote \in {[RemoteState(<<2>>) EXCEPT !.task.repeat_mode = mode] : mode \in {0, 1}}
    /\ calls = <<>>
    /\ local = None
    /\ result = NoResult

NextMerge == UpdateInvoke(MergeRequests) \/ UpdateSteps

SpecMerge == InitMerge /\ [][NextMerge]_vars

\* The value a field of the payload is to have: the requested one when the
\* request supplies the field, else the fetched one
Merged(requested, fetched) == IF IsDef(requested) THEN Val(requested) ELSE fetched

\* C17: in the payload of the update call every field the request does not
\* supply has the value of the task fetched at the start of the workflow,
\* the repeat interval when only a unit is supplied and the repeat mode when
\* only an interval is supplied included, and every supplied scalar field
\* has the requested value.
C17_PayloadPreservesOmitted ==
    op = "update" =>
        \A i \in CallsNamed("updateTask") :
            LET payload == Val(calls[i].payload)
                fetched == Val(local.updateState).currentTask
            IN  /\ payload.id = fetched.id
                /\ payload.assignees = fetched.assignees
                /\ payload.title = Merged(args.title, fetched.title)
                /\ payload.description = Merged(args.description, fetched.description)
                /\ payload.due_date = Merged(args.dueDate, fetched.due_date)
                /\ payload.priority = Merged(args.priority, fetched.priority)
                /\ payload.done = Merged(args.done, fetched.done)
                /\ ~IsDef(args.repeatAfter) => payload.repeat_after = fetched.repeat_after
                /\ ~IsDef(args.repeatMode) => payload.repeat_mode = fetched.repeat_mode

\* Only the unit week was supplied for a task stored with repeat_after 3, and
\* the update call carried 3 * 604800 as the interval
C17_Witness ==
    /\ op = "update"
    /\ args.repeatAfter = None /\ args.repeatMode = Some("week")
    /\ Len(calls) >= 2 /\ calls[2].name = "updateTask"
    /\ Val(local.updateState).currentTask.repeat_after = 3
    /\ Val(calls[2].payload).repeat_after = 1814400

\* Only an interval was supplied for a task stored as repeating monthly, and
\* the update call carried the interval mode
C17_WitnessMode ==
    /\ op = "update"
    /\ args.repeatAfter = Some(2) /\ args.repeatMode = None
    /\ Len(calls) >= 2 /\ calls[2].name = "updateTask"
    /\ Val(local.updateState).currentTask.repeat_mode = 1
    /\ Val(calls[2].payload).repeat_mode = 0

----------------------------------------------------------------------------
(* Update workflow: a removal that fails after the additions were applied *)

\* What a caller can read of an error: its class, its code and its message
Visible(e) == <<e.cls, e.code, e.msg>>

\* The errors the update workflow raises when the bulk assign call fails
AdditionFailureErrors ==
    {updateTaskCatch(
         updateTaskAssigneesCatch(RemoteError(kind, "bulkAssignUsersToTask"), FALSE), args)
       : kind \in FailKinds}

\* The bulk assign call succeeded and the last call, a removal, failed
RemovalFailedAfterAdditions ==
    /\ op = "update" /\ pc = "done" /\ result.status = "error"
    /\ Len(calls) >= 2
    /\ calls[Len(calls)].name = "removeUserFromTask"
    /\ calls[Len(calls)].outcome # "ok"
    /\ \E j \in 1..(Len(calls) - 1) :
          calls[j].name = "bulkAssignUsersToTask" /\ calls[j].outcome = "ok"

\* C18: when the bulk assign call of the update workflow succeeded and a
\* removal call then fails, whatever the kind of the failure, the caller
\* receives the partial-success error, and what the caller can read of it
\* differs from every error raised when the bulk assign call fails.
C18_RemovalFailureIsPartialSuccess ==
    RemovalFailedAfterAdditions =>
        /\ result.error.msg = "ASSIGNEE_REMOVE_PARTIAL"
        /\ \A e \in AdditionFailureErrors : Visible(result.error) # Visible(e)

\* A removal failed with a network failure after the bulk assign succeeded,
\* and the caller reads the same error as after a bulk assign that failed
\* with a network failure
C18_Witness ==
    /\ RemovalFailedAfterAdditions
    /\ calls[Len(calls)].outcome = "network"
    /\ remote.task.assignees = <<1, 2>>
    /\ Visible(result.error) =
          Visible(updateTaskCatch(
              updateTaskAssigneesCatch(RemoteError("network", "bulkAssignUsersToTask"), FALSE),
              args))

\* The same removal failed with an authentication failure and the caller
\* reads the partial-success error
C18_WitnessPartial ==
    /\ RemovalFailedAfterAdditions
    /\ calls[Len(calls)].outcome = "auth"
    /\ result.error.msg = "ASSIGNEE_REMOVE_PARTIAL"

----------------------------------------------------------------------------
(* Create workflow: what the rollback error reports *)

\* The last attempt of the secondary step that gave up: the call before the
\* compensating delete
FailedSecondaryCall == calls[Len(calls) - 1]

\* C19: the error raised after the labels or assignees step of the create
\* workflow gave up carries labelsAdded = TRUE exactly when a set-labels call
\* succeeded and assigneesAdded = TRUE exactly when an assign call succeeded,
\* which is what the remote task then holds; it carries the identifier of the
\* created task, and its message holds the message of the failure that ended
\* the step.
C19_FlagsMatchApplied ==
    SecondaryStepFailed =>
        LET details == Val(result.error.details)
        IN  /\ result.status = "error"
            /\ details.labelsAdded <=>
                  \E i \in CallsNamed("updateTaskLabels") : calls[i].outcome = "ok"
            /\ details.assigneesAdded <=>
                  \E i \in CallsNamed("bulkAssignUsersToTask") : calls[i].outcome = "ok"
            /\ remote.labels = IF details.labelsAdded THEN Val(args.labels) ELSE <<>>
            /\ remote.task.assignees =
                  IF details.assigneesAdded THEN Val(args.assignees) ELSE <<>>
            /\ details.taskId = Some(NewTaskId)
            /\ details.taskId = Val(local.creationState).createdTask.id
            /\ FailedSecondaryCall.name \in {"updateTaskLabels", "bulkAssignUsersToTask"}
            /\ FailedSecondaryCall.outcome # "ok"
            /\ FailedSecondaryCall.outcome # "auth" =>
                  OriginalMessage =
                      RemoteError(FailedSecondaryCall.outcome, FailedSecondaryCall.name).msg
            /\ result.error.msg \in {RolledBackMessage, RollbackFailedMessage}

\* The labels were applied, the assign call then failed with a failure that
\* is not retried, and the created task was deleted
C19_Witness ==
    /\ SecondaryStepFailed
    /\ remote.labels = <<1>>
    /\ FailedSecondaryCall.name = "bulkAssignUsersToTask"
    /\ FailedSecondaryCall.outcome = "other"
    /\ calls[Len(calls)].outcome = "ok"
    /\ Val(result.error.details).labelsAdded = TRUE
    /\ Val(result.error.details).assigneesAdded = FALSE
    /\ Val(result.error.details).taskId = Some(NewTaskId)
    /\ result.error.msg =
          "Failed to complete task creation: remote failure. Task was successfully rolled back."

----------------------------------------------------------------------------
(* Create workflow: retries of the secondary calls *)

SecondaryCalls == {"updateTaskLabels", "bulkAssignUsersToTask"}

\* The stage of createTask that issues a secondary call
StageOf(name) == IF name = "updateTaskLabels" THEN "labels" ELSE "assignees"

\* C20: in the create workflow the attempts of a secondary call (set labels,
\* assign users) follow one another and number at most maxRetries + 1; an
\* attempt is followed by another only if it failed with an authentication
\* failure; an attempt that failed otherwise is the last one, its error goes
\* on as it is, and when it was the first attempt it is the only one; the
\* compensating delete is issued only after the last attempt failed, either
\* otherwise than by authentication or with the budget used up.
C20_RetryPolicy ==
    op = "create" =>
        /\ \A name \in SecondaryCalls :
              LET attempts == CallsNamed(name)
              IN  /\ Cardinality(attempts) <= maxRetries + 1
                  /\ \A i, j \in attempts : i < j => (i + 1) \in attempts
                  /\ \A i \in attempts :
                        /\ (i + 1) \in attempts => calls[i].outcome = "auth"
                        /\ calls[i].outcome \in {"network", "other"} =>
                              /\ local.updateError = Some(RemoteError(calls[i].outcome, name))
                              /\ IF i = Len(calls) THEN pc = "rollback"
                                 ELSE calls[i + 1].name = "deleteTask"
                        /\ (calls[i].outcome = "auth" /\ i = Len(calls)) =>
                              pc = IF Cardinality(attempts) = maxRetries + 1
                                   THEN "rollback" ELSE StageOf(name)
        /\ \A d \in CallsNamed("deleteTask") :
              /\ d = Len(calls) /\ d > 1
              /\ calls[d - 1].name \in SecondaryCalls
              /\ calls[d - 1].outcome # "ok"
              /\ calls[d - 1].outcome = "auth" =>
                    Cardinality(CallsNamed(calls[d - 1].name)) = maxRetries + 1

\* The set-labels call failed with an authentication failure on every one of
\* its maxRetries + 1 attempts, and the compensating delete followed
C20_Witness ==
    /\ op = "create" /\ pc = "done"
    /\ Cardinality(CallsNamed("updateTaskLabels")) = maxRetries + 1
    /\ \A i \in CallsNamed("updateTaskLabels") : calls[i].outcome = "auth"
    /\ calls[Len(calls)].name = "deleteTask"
    /\ result.status = "error"

\* The assign call succeeded on its second attempt, after an authentication
\* failure
C20_WitnessRetried ==
    /\ op = "create"
    /\ Cardinality(CallsNamed("bulkAssignUsersToTask")) = 2
    /\ \E i \in CallsNamed("bulkAssignUsersToTask") :
          /\ (i + 1) \in CallsNamed("bulkAssignUsersToTask")
          /\ calls[i].outcome = "auth"
          /\ calls[i + 1].outcome = "ok"

----------------------------------------------------------------------------
(* Create workflow: input validation and the remote calls before it *)

\* The messages of the errors createTask raises for bad input (lines 74-88)
BadInputMessages ==
    {"projectId must be a positive integer",
     "title is required to create a task",
     "date: must be in ISO 8601 format with milliseconds",
     "date: must be a valid date",
     "assignee ID must be a positive integer"}

\* The create workflow rejected the request for bad input
CreateInputRejected ==
    /\ op = "create" /\ pc = "done"
    /\ result.status = "error"
    /\ result.error.code = ErrorCode.VALIDATION_ERROR
    /\ result.error.msg \in BadInputMessages

\* C21: a create request rejected with a validation error for a missing or
\* empty title, a malformed dueDate, an assignee id below 1 or a projectId
\* below 1 has issued no remote call before the rejection.
C21_NoRemoteCallBeforeRejection ==
    CreateInputRejected => calls = <<>>

\* A request with projectId 5 and no title was rejected for the title after
\* the project had been fetched
C21_Witness ==
    /\ CreateInputRejected
    /\ args.projectId = Some(5) /\ args.title = None
    /\ result.error.msg = "title is required to create a task"
    /\ calls = <<Call("getProject", 5, None, "ok")>>

\* A request with no projectId and a malformed dueDate was rejected for the
\* date after the projects had been listed
C21_WitnessList ==
    /\ CreateInputRejected
    /\ args.projectId = None /\ args.dueDate = Some(DateNoMillis)
    /\ result.error.msg = "date: must be in ISO 8601 format with milliseconds"
    /\ Len(calls) = 1 /\ calls[1].name = "getProjects" /\ calls[1].outcome = "ok"

----------------------------------------------------------------------------
(* Classified errors on their way to the caller *)

\* The create workflow ended because no default project was found: the one
\* call is the project listing
DefaultResolutionFailed ==
    /\ op = "create" /\ pc = "done"
    /\ result.status = "error"
    /\ Len(calls) = 1 /\ calls[1].name = "getProjects"
    /\ (calls[1].outcome # "ok" \/ ~IsDef(chooseInboxProject(remote.projects)))

\* The create workflow ended because the supplied project could not be fetched
ProjectFetchFailed ==
    /\ op = "create" /\ pc = "done"
    /\ Len(calls) = 1 /\ calls[1].name = "getProject" /\ calls[1].outcome # "ok"

\* e reached the caller with the code and the message it was raised with
ReachedCaller(e) ==
    /\ result.status = "error"
    /\ result.error.cls = "MCPError"
    /\ result.error.code = e.code
    /\ result.error.msg = e.msg

\* C22: an MCPError raised inside the create, get, update or delete workflow
\* reaches the caller with its code and its message unchanged: the error of
\* the default-project resolution, the error of the project check, the
\* input-validation errors of the four workflows and the rollback error.
C22_ClassifiedErrorUnchanged ==
    /\ DefaultResolutionFailed => ReachedCaller(findInboxProjectError(calls[1].outcome))
    /\ ProjectFetchFailed =>
          ReachedCaller(validateProjectExistsError(Val(args.projectId), calls[1].outcome))
    /\ (op = "create" /\ pc = "done" /\ Len(calls) = 1 /\ ~DefaultResolutionFailed
          /\ ~ProjectFetchFailed) =>
          ReachedCaller(Val(createTaskValidate(args, local.projectId)))
    /\ SecondaryStepFailed =>
          ReachedCaller(rollbackError(Val(local.creationState), Val(local.updateError),
                                      calls[Len(calls)].outcome = "ok"))
    /\ (op = "update" /\ pc = "done" /\ IsDef(updateTaskValidate(args))) =>
          ReachedCaller(Val(updateTaskValidate(args)))
    /\ (op = "get" /\ pc = "done" /\ IsDef(getTaskValidate(args))) =>
          ReachedCaller(Val(getTaskValidate(args)))
    /\ (op = "delete" /\ pc = "done" /\ IsDef(deleteTaskValidate(args))) =>
          ReachedCaller(Val(deleteTaskValidate(args)))

\* The project listing failed with an authentication failure; findInboxProject
\* raised an API_ERROR and the caller received a VALIDATION_ERROR
C22_Witness ==
    /\ DefaultResolutionFailed
    /\ calls[1].outcome = "auth"
    /\ findInboxProjectError(calls[1].outcome).code = ErrorCode.API_ERROR
    /\ result.error.code = ErrorCode.VALIDATION_ERROR
    /\ result.error.msg = "No projectId provided and failed to find Inbox project automatically"

----------------------------------------------------------------------------
(* Date formatting: formatDateToISO, getCurrentTimeString, createDateString *)

\* A Date value is a day number counted from 1970-01-01 and the milliseconds
\* into that day; the year, month and day of a day number, as the runtime
\* computes them for toISOString
CivilFromDays(day) ==
    LET z == day + 719468
        era == z \div 146097
        doe == z - era * 146097
        yoe == (doe - doe \div 1460 + doe \div 36524 - doe \div 146096) \div 365
        doy == doe - (365 * yoe + yoe \div 4 - yoe \div 100)
        mp == (5 * doy + 2) \div 153
        d == doy - (153 * mp + 2) \div 5 + 1
        mo == IF mp < 10 THEN mp + 3 ELSE mp - 9
    IN  [year |-> yoe + era * 400 + (IF mo <= 2 THEN 1 ELSE 0), month |-> mo, day |-> d]

\* The day number of a year, a month 1..12 and a day of the month, which may
\* lie outside the month (Date.UTC counts on from the first of the month)
DaysFromCivil(year, month, day) ==
    LET y == IF month <= 2 THEN year - 1 ELSE year
        era == y \div 400
        yoe == y - era * 400
        doy == (153 * (IF month > 2 THEN month - 3 ELSE month + 9) + 2) \div 5 + day - 1
        doe == yoe * 365 + yoe \div 4 - yoe \div 100 + doy
    IN  era * 146097 + doe - 719468

Pad6(n) == Pad2(n \div 10000) \o Pad4(n % 10000)

\* Date.prototype.toISOString: four digits for the years 0..9999, a sign and
\* six digits for the others
toISOString(date) ==
    LET civil == CivilFromDays(date.day)
        yearChars == IF civil.year \in 0..9999 THEN Pad4(civil.year)
                     ELSE IF civil.year > 9999 THEN <<"+">> \o Pad6(civil.year)
                     ELSE <<"-">> \o Pad6(0 - civil.year)
    IN  yearChars \o <<"-">> \o Pad2(civil.month) \o <<"-">> \o Pad2(civil.day)
        \o <<"T">> \o Pad2(date.ms \div 3600000) \o <<":">>
        \o Pad2((date.ms \div 60000) % 60) \o <<":">> \o Pad2((date.ms \div 1000) % 60)
        \o <<".">> \o Pad3(date.ms % 1000) \o <<"Z">>

\* formatDateToISO without the fraction of the second
formatDateToISO_NoFraction(date) == SubSeq(toISOString(date), 1, Len(toISOString(date)) - 5) \o <<"Z">>

\* formatDateToISO (index.ts lines 380-386)
formatDateToISO(date) == toISOString(date)

\* new Date(Date.UTC(year, month - 1, day, hour, minute, second)): a year
\* 0..99 stands for 1900 + year, months past the year and days past the month
\* carry over
DateUTC(year, monthIndex, day, hour, minute, second) ==
    LET fullYear == IF year \in 0..99 THEN 1900 + year ELSE year
        ym == fullYear + (monthIndex \div 12)
        mn == monthIndex % 12
        time == hour * 3600000 + minute * 60000 + second * 1000
    IN  [day |-> DaysFromCivil(ym, mn + 1, 1) + day - 1 + (time \div 86400000),
         ms |-> time % 86400000]

\* createDateString (lines 398-401)
createDateString(year, month, day, hour, minute, second) ==
    formatDateToISO(DateUTC(year, month - 1, day, hour, minute, second))

\* Date values around the ends of months and years, leap days, and the two
\* ends of the four-digit years with the days just outside them
DateValues ==
    [day : {DaysFromCivil(y, 1, 1) + k :
               y \in {0, 1900, 1970, 2024, 2025, 9999, 10000},
               k \in {-1, 0, 30, 31, 58, 59, 60, 302, 364, 365}},
     ms : {0, 14722422, 86399999}]

Formatted(date) ==
    [status |-> "ok", date |-> date, text |-> formatDateToISO(date),
     validation |-> validateDateString(formatDateToISO(date), "dueDate")]

\* formatDateToISO(date) followed by validateDateString of what it returned
FormatDate ==
    /\ pc = "idle"
    /\ \E date \in DateValues :
          /\ args' = date
          /\ result' = Formatted(date)
    /\ op' = "formatDateToISO"
    /\ pc' = "done"
    /\ UNCHANGED <<remote, calls, local>>

\* getCurrentTimeString() at some current time (lines 391-393)
CurrentTimeString ==
    /\ pc = "idle"
    /\ \E now \in DateValues :
          /\ args' = None
          /\ result' = Formatted(now)
    /\ op' = "getCurrentTimeString"
    /\ pc' = "done"
    /\ UNCHANGED <<remote, calls, local>>

\* createDateString(year, month, day, hour, minute, second)
CreateDateString ==
    /\ pc = "idle"
    /\ \E year \in {0, 99, 2024, 2025, 9999}, month \in {0, 1, 2, 12, 13},
          day \in {0, 1, 29, 31, 32}, hour \in {0, 23, 24}, minute \in {0, 59},
          second \in {0, 59, 60} :
          /\ args' = <<year, month, day, hour, minute, second>>
          /\ result' = Formatted(DateUTC(year, month - 1, day, hour, minute, second))
    /\ op' = "createDateString"
    /\ pc' = "done"
    /\ UNCHANGED <<remote, calls, local>>

NextFormat == FormatDate \/ CurrentTimeString \/ CreateDateString

SpecFormat == InitDate /\ [][NextFormat]_vars

C23_WitnessCarry ==
    /\ op = "createDateString" /\ pc = "done"
    /\ args = <<2024, 13, 32, 24, 59, 60>>
    /\ result.text = IsoString(2025, 2, 2, 1, 0, 0, 0)
    /\ result.validation = None

----------------------------------------------------------------------------
(* Create workflow: when it answers with success *)

LabelsInRequest == IsDef(args.labels) /\ Len(Val(args.labels)) > 0
AssigneesInRequest == IsDef(args.assignees) /\ Len(Val(args.assignees)) > 0

SucceededCall(name) == \E i \in CallsNamed(name) : calls[i].outcome = "ok"

\* C24: the create workflow answers with success only if the create call and
\* every requested secondary step succeeded, and then it has fetched the
\* created task exactly once, as its last call, and returns that task; when a
\* secondary step failed there is no fetch and no success response, whatever
\* the compensating delete answered.
C24_SuccessOnlyWhenComplete ==
    op = "create" =>
        /\ result.status = "ok" =>
              /\ SucceededCall("createTask")
              /\ LabelsInRequest => SucceededCall("updateTaskLabels")
              /\ AssigneesInRequest => SucceededCall("bulkAssignUsersToTask")
              /\ Cardinality(CallsNamed("getTask")) = 1
              /\ calls[Len(calls)].name = "getTask"
              /\ calls[Len(calls)].outcome = "ok"
              /\ result.data.task.id = Some(calls[Len(calls)].id)
        /\ IsDef(local.updateError) =>
              /\ CallsNamed("getTask") = {}
              /\ result.status # "ok"

\* The create call answered with a task that carries no identifier: the
\* requested labels were not applied, nothing was fetched, and the workflow
\* answered with success
C24_Witness ==
    /\ op = "create" /\ pc = "done"
    /\ result.status = "ok"
    /\ args.labels = Some(<<1>>)
    /\ CallsNamed("updateTaskLabels") = {}
    /\ CallsNamed("getTask") = {}
    /\ calls[Len(calls)].name = "createTask"
    /\ result.data.task.id = None
    /\ result.metadata.labelsAdded = TRUE

\* Labels and assignees were applied and the task fetched once
C24_WitnessComplete ==
    /\ op = "create" /\ pc = "done"
    /\ result.status = "ok"
    /\ SucceededCall("updateTaskLabels") /\ SucceededCall("bulkAssignUsersToTask")
    /\ calls[Len(calls)].name = "getTask"

----------------------------------------------------------------------------
(* Create workflow: order of the secondary steps *)

\* C25: in the create workflow every set-labels call precedes every assign
\* call; when labels were requested an assign call is issued only after a
\* set-labels call has succeeded, and no set-labels call follows the one that
\* succeeded; when the labels step gave up no assign call is issued at all.
C25_LabelsBeforeAssignees ==
    op = "create" =>
        /\ \A i \in CallsNamed("updateTaskLabels"), j \in CallsNamed("bulkAssignUsersToTask") :
              i < j
        /\ \A i, j \in CallsNamed("updateTaskLabels") :
              calls[i].outcome = "ok" => j <= i
        /\ (LabelsInRequest /\ CallsNamed("bulkAssignUsersToTask") # {}) =>
              SucceededCall("updateTaskLabels")
        /\ (CallsNamed("updateTaskLabels") # {} /\ ~SucceededCall("updateTaskLabels")) =>
              CallsNamed("bulkAssignUsersToTask") = {}
        /\ (SecondaryStepFailed /\ FailedSecondaryCall.name = "updateTaskLabels") =>
              CallsNamed("bulkAssignUsersToTask") = {}

\* The set-labels call succeeded on its second attempt and the assign call
\* followed it
C25_Witness ==
    /\ op = "create"
    /\ Len(calls) = 5
    /\ calls[3].name = "updateTaskLabels" /\ calls[3].outcome = "auth"
    /\ calls[4].name = "updateTaskLabels" /\ calls[4].outcome = "ok"
    /\ calls[5].name = "bulkAssignUsersToTask"

\* The labels step gave up on a request that also asked for assignees, and
\* the compensating delete followed at once
C25_WitnessNoAssign ==
    /\ op = "create" /\ pc = "done"
    /\ AssigneesInRequest
    /\ IsDef(local.updateError)
    /\ FailedSecondaryCall.name = "updateTaskLabels"
    /\ CallsNamed("bulkAssignUsersToTask") = {}

----------------------------------------------------------------------------
(* The retry count stated in an error *)

\* How many times the workflow attempted its last call: the calls at the end
\* of the history that have the name, the identifier and the payload of the
\* last one
LastCallAttempts ==
    Cardinality({i \in 1..Len(calls) :
                    \A j \in i..Len(calls) :
                        /\ calls[j].name = calls[Len(calls)].name
                        /\ calls[j].id = calls[Len(calls)].id
                        /\ calls[j].payload = calls[Len(calls)].payload})

\* C26: an error of the update or the create workflow that states that an
\* operation was retried maxRetries times is raised only after that operation
\* was attempted maxRetries + 1 times: the assignee-change error of the update
\* workflow, and the labels and assignees errors of the create workflow that
\* the rollback error quotes.
C26_RetryCountTruthful ==
    /\ (op = "update" /\ pc = "done" /\ result.status = "error"
          /\ result.error.msg = "ASSIGNEE_UPDATE (Retried maxRetries times)") =>
          LastCallAttempts = maxRetries + 1
    /\ (SecondaryStepFailed
          /\ OriginalMessage \in {"LABEL_CREATE (Retried maxRetries times). Task ID",
                                  "ASSIGNEE_CREATE (Retried maxRetries times). Task ID"}) =>
          Cardinality(CallsNamed(FailedSecondaryCall.name)) = maxRetries + 1

\* The bulk assign call of the update workflow failed once with an
\* authentication failure, and the error states maxRetries retries
C26_Witness ==
    /\ op = "update" /\ pc = "done"
    /\ result.status = "error"
    /\ result.error.msg = "ASSIGNEE_UPDATE (Retried maxRetries times)"
    /\ calls[Len(calls)].name = "bulkAssignUsersToTask"
    /\ calls[Len(calls)].outcome = "auth"
    /\ Cardinality(CallsNamed("bulkAssignUsersToTask")) = 1
    /\ LastCallAttempts = 1

----------------------------------------------------------------------------
(* Update workflow: a failure of the assignee stage after the update call *)

\* The update call was applied and the workflow then ended with a failed
\* call of the assignee stage
AssigneeStageFailedAfterUpdate ==
    /\ op = "update" /\ pc = "done" /\ result.status = "error"
    /\ SucceededCall("updateTask")
    /\ calls[Len(calls)].outcome # "ok"
    /\ \E i \in CallsNamed("updateTask") : i < Len(calls)

\* The errors the update workflow raises when the task was not modified: its
\* first fetch or the update call failed
UnmodifiedFailureErrors ==
    {updateTaskCatch(RemoteError(kind, call), args) :
        kind \in FailKinds, call \in {"getTask", "updateTask"}}

\* C27: when the update call has been applied and the assignee stage then
\* fails, the error the caller receives carries details of the steps that
\* completed, and what the caller can read of it differs from every error
\* raised when the task was not modified.
C27_PartialFailureReported ==
    AssigneeStageFailedAfterUpdate =>
        /\ IsDef(result.error.details)
        /\ \A e \in UnmodifiedFailureErrors : Visible(result.error) # Visible(e)

\* The priority was updated, the fetch of the current assignees then failed
\* with a network failure, and the caller reads the same error as after an
\* update call that failed with a network failure
C27_Witness ==
    /\ AssigneeStageFailedAfterUpdate
    /\ args.priority = Some(4)
    /\ remote.task.priority = 4
    /\ calls[Len(calls)].name = "getTask"
    /\ calls[Len(calls)].outcome = "network"
    /\ result.error.details = None
    /\ Visible(result.error) =
          Visible(updateTaskCatch(RemoteError("network", "updateTask"), args))

----------------------------------------------------------------------------
(* Update workflow: assignees and repeat fields in affectedFields *)

\* C28: affectedFields lists 'assignees' only when the requested assignee set
\* differs from the fetched one, 'repeatAfter' only when the requested
\* interval, in seconds, differs from the stored one, and 'repeatMode' only
\* when the requested mode differs from the stored one; a request that
\* restates the current assignees or repeat policy yields no entry for them.
C28_NonScalarAffectedFields ==
    (op = "update" /\ IsDef(local.updateState)) =>
        LET affectedFields == Val(local.updateState).affectedFields
            currentTask == Val(local.updateState).currentTask
            requested == convertRepeatConfiguration(args.repeatAfter, args.repeatMode)
        IN  /\ Includes(affectedFields, "assignees") =>
                  /\ IsDef(args.assignees)
                  /\ Range(Val(args.assignees)) # Range(currentTask.assignees)
            /\ Includes(affectedFields, "repeatAfter") =>
                  /\ IsDef(args.repeatAfter)
                  /\ requested.repeat_after # Some(currentTask.repeat_after)
            /\ Includes(affectedFields, "repeatMode") =>
                  /\ IsDef(args.repeatMode)
                  /\ requested.repeat_mode # Some(currentTask.repeat_mode)

\* The request restated the one assignee the task has, and affectedFields
\* lists 'assignees'
C28_Witness ==
    /\ op = "update" /\ IsDef(local.updateState)
    /\ args.assignees = Some(<<2>>)
    /\ Val(local.updateState).currentTask.assignees = <<2>>
    /\ Val(local.updateState).affectedFields = <<"assignees">>

\* The request asked for the monthly mode of a task stored as monthly, and
\* affectedFields lists 'repeatMode'
C28_WitnessMode ==
    /\ op = "update" /\ IsDef(local.updateState)
    /\ args.repeatMode = Some("month") /\ args.repeatAfter = None
    /\ Val(local.updateState).currentTask.repeat_mode = 1
    /\ Includes(Val(local.updateState).affectedFields, "repeatMode")

----------------------------------------------------------------------------
(* Delete workflow: its calls and its answer *)

\* C29: for a valid id the delete workflow issues one getTask and then one
\* deleteTask, both for that id, and nothing else, whatever the getTask
\* answered; when the deleteTask succeeds the answer is a success keyed by the
\* id that carries the fetched task and its title exactly when the getTask
\* succeeded; when the deleteTask fails the answer is an error.
C29_DeleteCallSequence ==
    (op = "delete" /\ ~IsDef(deleteTaskValidate(args))) =>
        /\ Len(calls) <= 2
        /\ \A i \in 1..Len(calls) :
              /\ calls[i].name = (IF i = 1 THEN "getTask" ELSE "deleteTask")
              /\ calls[i].id = Val(args.id)
        /\ Len(calls) = (CASE pc = "prefetch" -> 0 [] pc = "delete" -> 1 [] pc = "done" -> 2)
        /\ (pc = "done" /\ calls[2].outcome = "ok") =>
              /\ result.status = "ok"
              /\ result.metadata.taskId = Val(args.id)
              /\ IF calls[1].outcome = "ok"
                 THEN /\ result.data.task = Some([remote.task EXCEPT !.id = Val(args.id)])
                      /\ result.message.title = Some(remote.task.title)
                 ELSE /\ result.data.task = None
                      /\ result.data.deletedTaskId = args.id
                      /\ result.message.title = None
                      /\ result.message.id = args.id
                      /\ result.metadata.taskTitle = None
        /\ (pc = "done" /\ calls[2].outcome # "ok") => result.status = "error"

\* The getTask failed, the deleteTask succeeded, and the answer names only
\* the id
C29_Witness ==
    /\ op = "delete" /\ pc = "done"
    /\ args.id = Some(2)
    /\ calls = <<Call("getTask", 2, None, "other"), Call("deleteTask", 2, None, "ok")>>
    /\ result.status = "ok"
    /\ result.data.deletedTaskId = Some(2)

\* Both calls succeeded and the answer carries the title
C29_WitnessTitle ==
    /\ op = "delete" /\ pc = "done"
    /\ Len(calls) = 2 /\ calls[1].outcome = "ok" /\ calls[2].outcome = "ok"
    /\ result.message.title = Some("A")
    /\ result.metadata.taskTitle = Some("A")

----------------------------------------------------------------------------
(* Create workflow: a project lookup that fails remotely *)

\* The create workflow ended on a project lookup (the fetch of the supplied
\* project, or the listing for the default one) that failed with a network
\* or an authentication failure
ProjectLookupFailedRemotely ==
    /\ op = "create" /\ pc = "done"
    /\ Len(calls) = 1
    /\ calls[1].name \in {"getProject", "getProjects"}
    /\ calls[1].outcome \in {"network", "auth"}

\* C30: a network or authentication failure of the project lookup of the
\* create workflow reaches the caller as an error that is neither a
\* validation error nor a not-found error, and a network failure reaches it
\* as the connectivity error of handleFetchError.
C30_LookupFailureKeepsItsKind ==
    ProjectLookupFailedRemotely =>
        /\ result.status = "error"
        /\ result.error.code \notin {ErrorCode.VALIDATION_ERROR, ErrorCode.NOT_FOUND}
        /\ calls[1].outcome = "network" =>
              Visible(result.error) =
                  Visible(handleFetchError(RemoteError("network", calls[1].name), "create task"))

\* The fetch of project 5 failed with a network failure and the caller
\* received the validation error that says the project was not found
C30_Witness ==
    /\ ProjectLookupFailedRemotely
    /\ calls[1] = Call("getProject", 5, None, "network")
    /\ result.error.code = ErrorCode.VALIDATION_ERROR
    /\ result.error.msg = "Project with ID not found or not accessible"

\* The project listing failed with an authentication failure and the caller
\* received a validation error
C30_WitnessList ==
    /\ ProjectLookupFailedRemotely
    /\ calls[1].name = "getProjects" /\ calls[1].outcome = "auth"
    /\ args.projectId = Some(0)
    /\ result.error.code = ErrorCode.VALIDATION_ERROR

----------------------------------------------------------------------------
(* The due date sent to the remote service *)

\* C31: when the request carries a dueDate, the due date in the payload of
\* every createTask and updateTask call is that value, it matches
\* YYYY-MM-DDTHH:mm:ss.sssZ, and validateDateString accepts it; the empty
\* string included, no other request value reaches the remote service.
C31_DueDateOnTheWire ==
    /\ (op = "create" /\ IsDef(args.dueDate)) =>
          \A i \in CallsNamed("createTask") :
              /\ Val(calls[i].payload).due_date = args.dueDate
              /\ isoWithMillisecondsRegex(Val(args.dueDate))
              /\ validateDateString(Val(args.dueDate), "dueDate") = None
    /\ (op = "update" /\ IsDef(args.dueDate)) =>
          \A i \in CallsNamed("updateTask") :
              /\ Val(calls[i].payload).due_date = Val(args.dueDate)
              /\ isoWithMillisecondsRegex(Val(args.dueDate))
              /\ validateDateString(Val(args.dueDate), "dueDate") = None

\* An update request with the empty string as dueDate was not rejected, and
\* the update call carried the empty string as the task's due date
C31_Witness ==
    /\ op = "update"
    /\ args.dueDate = Some(EmptyChars)
    /\ \E i \in CallsNamed("updateTask") :
          /\ Val(calls[i].payload).due_date = EmptyChars
          /\ calls[i].outcome = "ok"
    /\ remote.task.due_date = EmptyChars

\* The same for a create request
C31_WitnessCreate ==
    /\ op = "create"
    /\ args.dueDate = Some(EmptyChars)
    /\ \E i \in CallsNamed("createTask") :
          Val(calls[i].payload).due_date = Some(EmptyChars)

----------------------------------------------------------------------------
(* The title sent to the remote service *)

\* C32: no createTask or updateTask call of the create or update workflow
\* carries the empty string as title, and a request whose title is the empty
\* string ends with a validation error in both workflows.
C32_TitleNeverEmpty ==
    /\ op = "create" =>
          /\ \A i \in CallsNamed("createTask") : Val(calls[i].payload).title # ""
          /\ (args.title = Some("") /\ pc = "done") =>
                /\ result.status = "error"
                /\ result.error.code = ErrorCode.VALIDATION_ERROR
    /\ op = "update" =>
          /\ \A i \in CallsNamed("updateTask") : Val(calls[i].payload).title # ""
          /\ (args.title = Some("") /\ pc = "done") =>
                /\ result.status = "error"
                /\ result.error.code = ErrorCode.VALIDATION_ERROR

\* An update request with the empty string as title went through: the update
\* call carried it and the workflow answered with success
C32_Witness ==
    /\ op = "update" /\ pc = "done"
    /\ args.title = Some("")
    /\ \E i \in CallsNamed("updateTask") :
          Val(calls[i].payload).title = "" /\ calls[i].outcome = "ok"
    /\ remote.task.title = ""
    /\ result.status = "ok"

\* A create request with the empty string as title was rejected for the
\* title
C32_WitnessCreate ==
    /\ op = "create" /\ pc = "done"
    /\ args.title = Some("")
    /\ result.status = "error"
    /\ result.error.msg = "title is required to create a task"
    /\ CallsNamed("createTask") = {}

----------------------------------------------------------------------------
(* The assignee identifiers sent to the remote service *)

MutatingCalls ==
    {"createTask", "updateTask", "updateTaskLabels", "bulkAssignUsersToTask",
     "removeUserFromTask", "deleteTask"}

\* The request names an assignee identifier that is not an integer >= 1
InvalidAssigneeInRequest ==
    /\ IsDef(args.assignees)
    /\ \E k \in 1..Len(Val(args.assignees)) : Val(args.assignees)[k] < 1

\* The user identifiers of the i-th call, an assign call
AssignedIds(i) ==
    IF op = "create" THEN Val(calls[i].payload) ELSE calls[i].payload

\* C33: every identifier in an assign call of the create or update workflow
\* is an integer >= 1, and a request that names any other assignee identifier
\* ends with a validation error without a mutating remote call.
C33_AssigneeIdsValidated ==
    op \in {"create", "update"} =>
        /\ \A i \in CallsNamed("bulkAssignUsersToTask") :
              \A k \in 1..Len(AssignedIds(i)) : AssignedIds(i)[k] >= 1
        /\ InvalidAssigneeInRequest =>
              /\ \A i \in 1..Len(calls) : calls[i].name \notin MutatingCalls
              /\ pc = "done" =>
                    /\ result.status = "error"
                    /\ result.error.code = ErrorCode.VALIDATION_ERROR

\* An update request with assignee 0 was carried out: the assign call named
\* user 0
C33_Witness ==
    /\ op = "update"
    /\ args.assignees = Some(<<0>>)
    /\ \E i \in CallsNamed("bulkAssignUsersToTask") :
          calls[i].payload = <<0>> /\ calls[i].outcome = "ok"

\* A create request with assignee 0 was rejected before the create call
C33_WitnessCreate ==
    /\ op = "create" /\ pc = "done"
    /\ args.assignees = Some(<<0>>)
    /\ result.status = "error"
    /\ result.error.msg = "assignee ID must be a positive integer"
    /\ CallsNamed("createTask") = {}

----------------------------------------------------------------------------
(* Update workflow: repeated identifiers in the desired assignees *)

\* C34: whatever the desired assignee list, repeated identifiers included,
\* an assign call of the update workflow names each identifier at most once,
\* and at most one removal call is issued per identifier.
C34_DiffDeduplicated ==
    op = "update" =>
        /\ \A i \in CallsNamed("bulkAssignUsersToTask") : NoRepeat(calls[i].payload)
        /\ \A i, j \in CallsNamed("removeUserFromTask") :
              i # j => calls[i].payload # calls[j].payload

\* The request named user 2 twice for a task assigned to user 1, and the
\* assign call named user 2 twice
C34_Witness ==
    /\ op = "update"
    /\ args.assignees = Some(<<2, 2>>)
    /\ local.currentAssigneeIds = Some(<<1>>)
    /\ \E i \in CallsNamed("bulkAssignUsersToTask") : calls[i].payload = <<2, 2>>

----------------------------------------------------------------------------
(* Create workflow: a created task behind an error *)

\* The create workflow ended with an error after the create call had made
\* the task
CreateFailedAfterBase ==
    /\ op = "create" /\ pc = "done"
    /\ result.status = "error"
    /\ SucceededCall("createTask")

\* C35: whenever the create workflow ends with an error after the task was
\* created, a failure of the final fetch included, either the task has been
\* deleted again, or the error reports a partially created task with its
\* identifier and a rollback that did not succeed.
C35_NoUnreportedOrphan ==
    CreateFailedAfterBase =>
        \/ remote.created = <<>>
        \/ /\ IsDef(result.error.details)
           /\ Val(result.error.details).partiallyCreated
           /\ ~Val(result.error.details).rollbackSucceeded
           /\ Val(result.error.details).taskId = Some(NewTaskId)

\* Labels and assignees were applied, the final fetch failed with a network
\* failure, and the caller received the connectivity error while the task
\* stayed on the remote service
C35_Witness ==
    /\ CreateFailedAfterBase
    /\ calls[Len(calls)].name = "getTask"
    /\ calls[Len(calls)].outcome = "network"
    /\ SucceededCall("updateTaskLabels") /\ SucceededCall("bulkAssignUsersToTask")
    /\ CallsNamed("deleteTask") = {}
    /\ remote.created = <<Some(NewTaskId)>>
    /\ result.error.details = None
    /\ result.error.msg = "handleFetchError"

\* ---------------------------------------------------------------------------
\* Update workflow: the label set is outside its reach
\* ---------------------------------------------------------------------------

\* The label set every task starts with
InitialLabels == RemoteState(<<>>).labels

\* C36: whatever the update request and whatever the outcome of each remote
\* call, the update workflow issues no set-labels call and the task's label set
\* stays what it was before the run.
C36_UpdateKeepsLabels ==
    op = "update" =>
        /\ CallsNamed("updateTaskLabels") = {}
        /\ remote.labels = InitialLabels

\* An update that names assignees ran to its end with success
C36_Witness ==
    /\ op = "update" /\ pc = "done"
    /\ result.status = "ok"
    /\ IsDef(args.assignees)
    /\ CallsNamed("updateTask") # {}
    /\ remote.labels = InitialLabels

\* A request naming labels, valid otherwise, was turned away before any call
C36_WitnessLabelsNamed ==
    /\ op = "update" /\ pc = "done"
    /\ args.labels = Some(<<1, 2, 3>>)
    /\ ~IsDef(updateTaskValidate_NoLabelsCheck(args))
    /\ result.status = "error"
    /\ calls = <<>>
    /\ remote.labels = InitialLabels

\* ---------------------------------------------------------------------------
\* Update workflow: a failed addition of assignees
\* ---------------------------------------------------------------------------

\* Positions of the add calls of the update workflow that failed
FailedAddCalls ==
    {i \in CallsNamed("bulkAssignUsersToTask") : op = "update" /\ calls[i].outcome # "ok"}

\* C37: when the add-assignees call of the update workflow fails, no remove
\* call follows it and the task's assignees on the service are the ones read
\* at the start of the assignee stage.
C37_FailedAdditionChangesNothing ==
    \A i \in FailedAddCalls :
        /\ \A j \in CallsNamed("removeUserFromTask") : j < i
        /\ i = Len(calls)
        /\ pc = "done"
        /\ result.status = "error"
        /\ remote.task.assignees = Val(local.currentAssigneeIds)

\* The addition failed while the diff also held an assignee to remove
C37_Witness ==
    /\ FailedAddCalls # {}
    /\ pc = "done"
    /\ local.toRemove # <<>>
    /\ CallsNamed("removeUserFromTask") = {}
    /\ remote.task.assignees = Val(local.currentAssigneeIds)
    /\ remote.task.assignees # <<>>

----------------------------------------------------------------------------
(* The projects tool and the labels tool *)

\* What wrapToolError can hand back for an error thrown inside the try block
\* of a handler: the error itself or an internal error built from it
WrappedErrors(e) ==
    {e, Err("MCPError", ErrorCode.INTERNAL_ERROR, "wrapToolError", e.kind, e.origin, None)}

\* Requests the schema of the projects tool admits: ids are positive numbers
ProjectsRequests ==
    [subcommand : {"list", "get", "create", "update", "create-share", "get-share"},
     id : {None, Some(3)},
     title : {None, Some(""), Some("P")},
     projectId : {None, Some(3)},
     right : {None, Some("read")},
     shareId : {None, Some(" "), Some("s")}]

\* The checks of the switch of the projects tool (lines 111-260): None when
\* the request goes on to its operation, else the error thrown
projectsValidate(a) ==
    CASE a.subcommand = "get" /\ ~IsDef(a.id) ->
            Some(MCPError(ErrorCode.VALIDATION_ERROR, "Project ID is required for get operation"))
      [] a.subcommand = "create" /\ ~TruthyStr(a.title) ->
            Some(MCPError(ErrorCode.VALIDATION_ERROR,
                          "Project title is required for create operation"))
      [] a.subcommand = "update" /\ ~TruthyNum(a.id) ->
            Some(MCPError(ErrorCode.VALIDATION_ERROR,
                          "Project ID is required for update operation"))
      [] a.subcommand = "create-share" /\ ~TruthyNum(a.projectId) ->
            Some(MCPError(ErrorCode.VALIDATION_ERROR,
                          "Project ID is required for create-share operation"))
      [] a.subcommand = "create-share" /\ TruthyNum(a.projectId) /\ ~TruthyStr(a.right) ->
            Some(MCPError(ErrorCode.VALIDATION_ERROR,
                          "Share right is required for create-share operation"))
      [] a.subcommand = "get-share" /\ ~IsDef(a.shareId) ->
            Some(MCPError(ErrorCode.VALIDATION_ERROR,
                          "Share ID is required for get-share operation"))
      [] a.subcommand = "get-share" /\ a.shareId = Some(" ") ->
            Some(MCPError(ErrorCode.VALIDATION_ERROR, "Share ID must be a non-empty string"))
      [] OTHER -> None

\* The operation of the projects modules a subcommand is handed to
projectsOperation(subcommand) ==
    CASE subcommand = "list" -> "listProjects"
      [] subcommand = "get" -> "getProject"
      [] subcommand = "create" -> "createProject"
      [] subcommand = "update" -> "updateProject"
      [] subcommand = "create-share" -> "createProjectShare"
      [] subcommand = "get-share" -> "getProjectShare"

\* A request arrives at the projects tool and runs to the await of the
\* operation it is handed to (lines 98-260)
ProjectsInvoke ==
    /\ pc = "idle"
    /\ \E a \in ProjectsRequests, authenticated \in BOOLEAN :
          /\ args' = a
          /\ op' = "projects"
          /\ IF ~authenticated
             THEN /\ local' = [authenticated |-> FALSE, reached |-> <<"auth">>]
                  /\ result' = Failure(createAuthRequiredError)
                  /\ pc' = "done"
             ELSE IF IsDef(projectsValidate(a))
             THEN /\ local' = [authenticated |-> TRUE,
                               reached |-> <<"auth", "factory", "validate">>]
                  /\ result' \in {Failure(e) : e \in WrappedErrors(Val(projectsValidate(a)))}
                  /\ pc' = "done"
             ELSE /\ local' = [authenticated |-> TRUE,
                               reached |-> <<"auth", "factory", "validate", "operation">>]
                  /\ result' = result
                  /\ pc' = "operation"
    /\ UNCHANGED <<remote, calls>>

\* The operation the projects tool awaits settles (lines 111-265)
ProjectsOperation ==
    /\ op = "projects" /\ pc = "operation"
    /\ \E o \in Outcomes :
          /\ calls' = Append(calls, Call(projectsOperation(args.subcommand), None, args, o))
          /\ result' \in IF o = "ok"
                         THEN {Success(projectsOperation(args.subcommand), "done", None, None)}
                         ELSE {Failure(e) :
                                  e \in WrappedErrors(RemoteError(o, projectsOperation(args.subcommand)))}
    /\ pc' = "done"
    /\ UNCHANGED <<op, args, remote, local>>

\* The error of the labels tool for a session that is not authenticated
\* (lines 44-49)
labelsAuthRequiredError ==
    Err("MCPError", "AUTH_REQUIRED", "Authentication required", "none", "local", None)

\* Requests the schema of the labels tool admits: the subcommand may be
\* missing, an id is a positive integer, a title has at least one character;
\* no request of the model carries a hexColor
LabelsRequests ==
    [subcommand : {None, Some("list"), Some("get"), Some("create"), Some("update"),
                   Some("delete")},
     id : {None, Some(7), Some(8)},
     title : {None, Some("L")},
     description : {None, Some("")}]

\* args.subcommand || 'list' (line 54)
labelsSubcommand(a) == IF TruthyStr(a.subcommand) THEN Val(a.subcommand) ELSE "list"

\* The checks of the switch of the labels tool (lines 58-209): None when the
\* request goes on to its remote call, else the error thrown
labelsValidate(a) ==
    CASE labelsSubcommand(a) \in {"get", "update", "delete"} /\ ~IsDef(a.id) ->
            Some(MCPError(ErrorCode.VALIDATION_ERROR, "Label ID is required"))
      [] labelsSubcommand(a) = "create" /\ ~TruthyStr(a.title) ->
            Some(MCPError(ErrorCode.VALIDATION_ERROR, "Title is required for create operation"))
      [] labelsSubcommand(a) = "update" /\ IsDef(a.id)
            /\ ~TruthyStr(a.title) /\ ~IsDef(a.description) ->
            Some(MCPError(ErrorCode.VALIDATION_ERROR,
                          "At least one field to update is required"))
      [] OTHER -> None

\* The remote call of each subcommand of the labels tool
labelsCall(subcommand) ==
    CASE subcommand = "list" -> "getLabels"
      [] subcommand = "get" -> "getLabel"
      [] subcommand = "create" -> "createLabel"
      [] subcommand = "update" -> "updateLabel"
      [] subcommand = "delete" -> "deleteLabel"

\* The identifier a created label receives
NewLabelId == 9

\* The labels known to the service after a successful call of the labels tool
labelsAfter(catalogue, a) ==
    CASE labelsSubcommand(a) = "create" -> catalogue \cup {NewLabelId}
      [] labelsSubcommand(a) = "delete" -> catalogue \ {Val(a.id)}
      [] OTHER -> catalogue

\* LabelsInvoke checking the arguments before the session
LabelsInvoke_ValidateFirst ==
    /\ pc = "idle"
    /\ \E a \in LabelsRequests, authenticated \in BOOLEAN :
          /\ args' = a
          /\ op' = "labels"
          /\ IF IsDef(labelsValidate(a))
             THEN /\ local' = [authenticated |-> authenticated, reached |-> <<"validate">>]
                  /\ result' \in {Failure(e) : e \in WrappedErrors(Val(labelsValidate(a)))}
                  /\ pc' = "done"
             ELSE IF ~authenticated
             THEN /\ local' = [authenticated |-> FALSE, reached |-> <<"validate", "auth">>]
                  /\ result' = Failure(labelsAuthRequiredError)
                  /\ pc' = "done"
             ELSE /\ local' = [authenticated |-> TRUE,
                               reached |-> <<"validate", "auth", "client", "call">>]
                  /\ result' = result
                  /\ pc' = "call"
    /\ UNCHANGED <<remote, calls>>

\* A request arrives at the labels tool and runs to the await of its remote
\* call (lines 43-209)
LabelsInvoke ==
    /\ pc = "idle"
    /\ \E a \in LabelsRequests, authenticated \in BOOLEAN :
          /\ args' = a
          /\ op' = "labels"
          /\ IF ~authenticated
             THEN /\ local' = [authenticated |-> FALSE, reached |-> <<"auth">>]
                  /\ result' = Failure(labelsAuthRequiredError)
                  /\ pc' = "done"
             ELSE IF IsDef(labelsValidate(a))
             THEN /\ local' = [authenticated |-> TRUE,
                               reached |-> <<"auth", "client", "validate">>]
                  /\ result' \in {Failure(e) : e \in WrappedErrors(Val(labelsValidate(a)))}
                  /\ pc' = "done"
             ELSE /\ local' = [authenticated |-> TRUE,
                               reached |-> <<"auth", "client", "validate", "call">>]
                  /\ result' = result
                  /\ pc' = "call"
    /\ UNCHANGED <<remote, calls>>

\* The remote call of the labels tool settles (lines 65-200); a label the
\* service does not know is not found
LabelsCall ==
    /\ op = "labels" /\ pc = "call"
    /\ \E o \in Outcomes :
          /\ (o = "ok" /\ labelsSubcommand(args) \in {"get", "update", "delete"})
                => Val(args.id) \in remote.labelCatalogue
          /\ calls' = Append(calls, Call(labelsCall(labelsSubcommand(args)), args.id, args, o))
          /\ IF o = "ok"
             THEN /\ remote' = [remote EXCEPT !.labelCatalogue = labelsAfter(@, args)]
                  /\ result' = Success(labelsSubcommand(args) \o "-label", "done", None, None)
             ELSE /\ remote' = remote
                  /\ result' \in {Failure(e) :
                        e \in WrappedErrors(RemoteError(o, labelsCall(labelsSubcommand(args))))}
    /\ pc' = "done"
    /\ UNCHANGED <<op, args, local>>

\* The service of the tools: the task of InitRelation and the labels it knows
InitGate ==
    /\ op = "none"
    /\ pc = "idle"
    /\ args = None
    /\ remote \in {[task |-> InitialTask(<<2>>), labels |-> <<7>>, relations |-> rs,
                    labelCatalogue |-> {7}] :
                   rs \in {{}, {[task_id |-> 1, other_task_id |-> 2,
                                 relation_kind |-> "subtask"]}}}
    /\ calls = <<>>
    /\ local = None
    /\ result = NoResult

NextGate ==
    \/ NextTool
    \/ ProjectsInvoke
    \/ ProjectsOperation
    \/ LabelsInvoke
    \/ LabelsCall

SpecGate == InitGate /\ [][NextGate]_vars

----------------------------------------------------------------------------
(* Authentication gate: claims *)

\* The request is held by the handler of the tasks, projects or labels tool
InToolHandler == op \in {"tool", "projects", "labels"}

\* The error returned says that authentication is required
AuthRequiredReturned ==
    /\ pc = "done"
    /\ result.status = "error"
    /\ result.error.cls = "MCPError"
    /\ result.error.code = "AUTH_REQUIRED"

C38_WitnessTasks ==
    /\ op = "tool" /\ ~local.authenticated
    /\ args.subcommand = "update" /\ args.id = None
    /\ IsDef(validateTaskIdRequirement(args))
    /\ AuthRequiredReturned

\* The projects tool, not authenticated, was asked to create without a title
C38_WitnessProjects ==
    /\ op = "projects" /\ ~local.authenticated
    /\ args.subcommand = "create" /\ args.title = None
    /\ IsDef(projectsValidate(args))
    /\ AuthRequiredReturned

----------------------------------------------------------------------------
(* processBatches *)

MaxBatchItems == 4    \* longest item list handed to processBatches

\* Most processor runs the history keeps; a run with a batch size of at least
\* 1 makes at most MaxBatchItems of them
MaxBatchRuns == MaxBatchItems + 2

\* Array.prototype.slice(start, end) for integer arguments: a negative index
\* counts from the end, both are clamped to the array, a start at or past the
\* end gives the empty array
slice(s, start, end) ==
    LET len == Len(s)
        from == IF start < 0
                THEN (IF len + start < 0 THEN 0 ELSE len + start)
                ELSE (IF start > len THEN len ELSE start)
        to == IF end < 0
              THEN (IF len + end < 0 THEN 0 ELSE len + end)
              ELSE (IF end > len THEN len ELSE end)
    IN  IF from >= to THEN <<>> ELSE SubSeq(s, from + 1, to)

\* batchOf reaching one item into the next batch
batchOf_Inclusive(items, i, batchSize) == slice(items, i, i + batchSize + 1)

\* items.slice(i, i + batchSize) (line 466)
batchOf(items, i, batchSize) == slice(items, i, i + batchSize)

\* The results a processor that maps each item gives for a batch
Mapped(batch) == [k \in 1..Len(batch) |-> batch[k] + 10]

\* What a processor can resolve with for a batch: one result per item, or
\* none at all
ProcessorResults(batch) == {Mapped(batch), <<>>}

\* Item lists and batch sizes handed to processBatches
BatchRequests ==
    [items : SeqsUpTo(1..2, MaxBatchItems),
     batchSize : -1..(MaxBatchItems + 1)]

\* The history of processor runs, kept up to MaxBatchRuns entries
Recorded(run) == IF Len(calls) < MaxBatchRuns THEN Append(calls, run) ELSE calls

\* processBatches is called (lines 459-464)
BatchInvoke ==
    /\ pc = "idle"
    /\ \E a \in BatchRequests :
          /\ args' = a
          /\ op' = "batch"
          /\ local' = [i |-> 0, results |-> <<>>, batch |-> <<>>, inFlight |-> 0]
          /\ pc' = "loop"
    /\ UNCHANGED <<remote, calls, result>>

\* The loop test holds: the next batch is cut and the processor started
\* (lines 465-467).  i is followed down to -MaxBatchRuns
BatchStart ==
    /\ op = "batch" /\ pc = "loop"
    /\ local.i < Len(args.items)
    /\ local.i > -MaxBatchRuns
    /\ local' = [local EXCEPT !.batch = batchOf(args.items, local.i, args.batchSize),
                              !.inFlight = @ + 1]
    /\ pc' = "await"
    /\ UNCHANGED <<op, args, remote, calls, result>>

\* The processor settles (lines 467-468): its results are pushed and i
\* advances, or its rejection leaves processBatches
BatchSettle ==
    /\ op = "batch" /\ pc = "await"
    /\ \E o \in Outcomes :
          IF o = "ok"
          THEN \E batchResults \in ProcessorResults(local.batch) :
                  /\ calls' = Recorded(Call("processor", local.i,
                                            [batch |-> local.batch,
                                             batchResults |-> batchResults], o))
                  /\ local' = [local EXCEPT !.results = @ \o batchResults,
                                            !.i = @ + args.batchSize,
                                            !.inFlight = @ - 1]
                  /\ pc' = "loop"
                  /\ result' = result
          ELSE /\ calls' = Recorded(Call("processor", local.i,
                                         [batch |-> local.batch, batchResults |-> <<>>], o))
               /\ local' = [local EXCEPT !.inFlight = @ - 1]
               /\ pc' = "done"
               /\ result' = Failure(RemoteError(o, "processor"))
    /\ UNCHANGED <<op, args, remote>>

\* The loop test fails: the results are returned (lines 465, 470)
BatchReturn ==
    /\ op = "batch" /\ pc = "loop"
    /\ ~(local.i < Len(args.items))
    /\ result' = [status |-> "ok", data |-> local.results]
    /\ pc' = "done"
    /\ UNCHANGED <<op, args, remote, calls, local>>

InitBatch ==
    /\ op = "none"
    /\ pc = "idle"
    /\ args = None
    /\ remote = None
    /\ calls = <<>>
    /\ local = None
    /\ result = NoResult

NextBatch == BatchInvoke \/ BatchStart \/ BatchSettle \/ BatchReturn

\* The event loop runs every continuation that is ready, and the processor's
\* promise settles
SpecBatch == InitBatch /\ [][NextBatch]_vars /\ WF_vars(NextBatch)

----------------------------------------------------------------------------
(* processBatches: claims *)

\* The batches of the first n processor runs, one after the other
RECURSIVE BatchesPassed(_)
BatchesPassed(n) ==
    IF n = 0 THEN <<>> ELSE BatchesPassed(n - 1) \o calls[n].payload.batch

\* The results of the first n processor runs, one after the other
RECURSIVE ResultsGiven(_)
ResultsGiven(n) ==
    IF n = 0 THEN <<>> ELSE ResultsGiven(n - 1) \o calls[n].payload.batchResults

\* What the claim says of a run of processBatches, short of termination: no
\* batch is longer than batchSize; the batches are consecutive slices of the
\* list, in list order; at most one batch is in flight; a failed batch is the
\* last one and the failure is what the caller gets; a returned list is the
\* results of the batches in batch order, given after every item was passed
\* exactly once
BatchRunAsClaimed ==
    /\ \A k \in 1..Len(calls) : Len(calls[k].payload.batch) <= args.batchSize
    /\ Len(local.batch) <= args.batchSize
    /\ Len(BatchesPassed(Len(calls))) <= Len(args.items)
    /\ BatchesPassed(Len(calls)) = SubSeq(args.items, 1, Len(BatchesPassed(Len(calls))))
    /\ local.inFlight \in {0, 1}
    /\ (local.inFlight = 1) <=> (pc = "await")
    /\ \A k \in 1..Len(calls) :
          calls[k].outcome # "ok" =>
              /\ k = Len(calls)
              /\ pc = "done"
              /\ result = Failure(RemoteError(calls[k].outcome, "processor"))
    /\ (pc = "done" /\ result.status = "ok") =>
          /\ BatchesPassed(Len(calls)) = args.items
          /\ result.data = ResultsGiven(Len(calls))

\* C39 as stated, for every batch size: every run of processBatches ends, and
\* until then it cuts the list into consecutive slices of at most batchSize
\* items, one in flight at a time, stops at the first failed batch and returns
\* the results in batch order after passing every item once.
C39_AnyBatchSize ==
    /\ [](op = "batch" => BatchRunAsClaimed)
    /\ (op = "batch") ~> (pc = "done")

\* C39, for batch sizes of at least 1: every run of processBatches ends, and
\* until then it cuts the list into consecutive slices of at most batchSize
\* items, one in flight at a time, stops at the first failed batch and returns
\* the results in batch order after passing every item once.
C39_PositiveBatchSize ==
    /\ []((op = "batch" /\ args.batchSize >= 1) => BatchRunAsClaimed)
    /\ (op = "batch" /\ args.batchSize >= 1) ~> (pc = "done")

\* Three items went through in batches of two, the last batch one item short
C39_Witness ==
    /\ op = "batch" /\ pc = "done"
    /\ args.batchSize = 2 /\ args.items = <<1, 2, 1>>
    /\ Len(calls) = 2
    /\ calls[2].payload.batch = <<1>>
    /\ result.status = "ok"
    /\ result.data = <<11, 12, 11>>

\* The second of three batches failed and no third was started
C39_WitnessFailure ==
    /\ op = "batch" /\ pc = "done"
    /\ args.batchSize = 1 /\ Len(args.items) = 3
    /\ Len(calls) = 2
    /\ calls[2].outcome = "network"
    /\ result.status = "error"

\* With a batch size of 0 the same empty batch is cut again and again
C39_WitnessZero ==
    /\ op = "batch" /\ pc = "loop"
    /\ args.batchSize = 0 /\ args.items # <<>>
    /\ Len(calls) = MaxBatchRuns
    /\ local.i = 0

====
